---- MODULE Spec2Model ----
(***************************************************************************)
(* A model of github.com/spakin/hsvimage: the three HSV+alpha pixel        *)
(* buffers of image.go (NHSVA, NHSVA64, NHSVAF64) with their sub-images    *)
(* sharing one backing array, and the colour models of package hsvcolor.   *)
(*                                                                         *)
(* A Go slice is modelled as a window [off, len] on the backing array arr  *)
(* (cap = len for every slice the package builds); an index or slice       *)
(* expression out of range is a run-time panic, returned as ok = FALSE.    *)
(* A float64 is modelled as a fraction in lowest terms; the model only     *)
(* applies float operations to operands on which they are exact.           *)
(***************************************************************************)
EXTENDS Integers, Sequences, FiniteSets, TLC

VARIABLES
    kind,       \* which buffer type the program built: "NHSVA", "NHSVA64", "NHSVAF64"
    arr,        \* the backing array allocated by New*, shared by every handle
    p,          \* the buffer returned by New*: [Pix, Stride, Rect]
    s,          \* the current sub-image handle (initially the same header as p)
    last,       \* the last call: operation, handle, whether its point or rectangle
                \* met the handle's rectangle (in) and the parent's (inp), and the
                \* value it returned
    panicked,   \* TRUE once a call has faulted (index or slice out of range)
    cin,        \* colour handed to a colour model (conversion runs)
    cout        \* the model called and the colour it returned

vars == <<kind, arr, p, s, last, panicked, cin, cout>>

-----------------------------------------------------------------------------
(* Bounds of the model *)

\* largest width, height and area of the rectangle handed to New*
MaxW == 2

MaxH == 2

MaxArea == 4

-----------------------------------------------------------------------------
(* Go's image.Point and image.Rectangle, as the package uses them *)

Pt(x, y) == [X |-> x, Y |-> y]

\* image.Rect: a well-formed rectangle whatever the order of the corners
Rect(x0, y0, x1, y1) ==
    [Min |-> Pt(IF x0 > x1 THEN x1 ELSE x0, IF y0 > y1 THEN y1 ELSE y0),
     Max |-> Pt(IF x0 > x1 THEN x0 ELSE x1, IF y0 > y1 THEN y0 ELSE y1)]

\* image.ZR, the zero Rectangle
ZR == [Min |-> Pt(0, 0), Max |-> Pt(0, 0)]

Dx(r) == r.Max.X - r.Min.X

Dy(r) == r.Max.Y - r.Min.Y

\* Rectangle.Empty
Empty(r) == r.Min.X >= r.Max.X \/ r.Min.Y >= r.Max.Y

\* Point.In
In(pt, r) ==
    /\ r.Min.X <= pt.X /\ pt.X < r.Max.X
    /\ r.Min.Y <= pt.Y /\ pt.Y < r.Max.Y

\* Rectangle.Intersect: the largest rectangle inside both, ZR when there is none
Intersect(r, q) ==
    LET c == [Min |-> Pt(IF r.Min.X < q.Min.X THEN q.Min.X ELSE r.Min.X,
                         IF r.Min.Y < q.Min.Y THEN q.Min.Y ELSE r.Min.Y),
              Max |-> Pt(IF r.Max.X > q.Max.X THEN q.Max.X ELSE r.Max.X,
                         IF r.Max.Y > q.Max.Y THEN q.Max.Y ELSE r.Max.Y)]
    IN IF Empty(c) THEN ZR ELSE c

-----------------------------------------------------------------------------
(* Go slices over the backing array *)

\* the nil slice of a zero-valued buffer header
NilPix == [off |-> 0, len |-> 0]

\* make([]T, n): a fresh zero-filled array and the slice covering it
MakeArr(n, zero) == [i \in 0 .. (n - 1) |-> zero]

\* pix[i:] is in range iff 0 <= i <= len(pix)
SliceFromOK(pix, i) == 0 <= i /\ i <= pix.len

SliceFrom(pix, i) == [off |-> pix.off + i, len |-> pix.len - i]

\* pix[i : j : j] is in range iff 0 <= i <= j <= cap(pix)
Slice3OK(pix, i, j) == 0 <= i /\ i <= j /\ j <= pix.len

\* pix[i] is in range iff 0 <= i < len(pix)
IndexOK(pix, i) == 0 <= i /\ i < pix.len

\* the element pix[i] of the backing array a
Elem(a, pix, i) == a[pix.off + i]

\* the backing array a after pix[i+k] = v[k+1] for every k < Len(v)
Store(a, pix, i, v) ==
    [j \in DOMAIN a |->
        IF pix.off + i <= j /\ j < pix.off + i + Len(v)
        THEN v[j - (pix.off + i) + 1]
        ELSE a[j]]

-----------------------------------------------------------------------------
(* float64 values: fractions in lowest terms, den > 0 *)

RECURSIVE Gcd(_, _)
Gcd(a, b) == IF b = 0 THEN a ELSE Gcd(b, a % b)

Abs(n) == IF n < 0 THEN -n ELSE n

Frac(n, d) ==
    LET g == Gcd(Abs(n), Abs(d))
        sg == IF d < 0 THEN -1 ELSE 1
    IN [num |-> sg * (n \div g), den |-> sg * (d \div g)]

F0 == Frac(0, 1)

F1 == Frac(1, 1)

\* (fractions over one denominator are compared and added on the numerators)
FLt(a, b) ==
    IF a.den = b.den THEN a.num < b.num ELSE a.num * b.den < b.num * a.den

FSub(a, b) ==
    IF a.den = b.den THEN Frac(a.num - b.num, a.den)
    ELSE Frac(a.num * b.den - b.num * a.den, a.den * b.den)

FAdd(a, b) ==
    IF a.den = b.den THEN Frac(a.num + b.num, a.den)
    ELSE Frac(a.num * b.den + b.num * a.den, a.den * b.den)

FMul(a, b) == Frac(a.num * b.num, a.den * b.den)

FDiv(a, b) == Frac(a.num * b.den, a.den * b.num)

\* math.Min and math.Max
FMin(a, b) == IF FLt(b, a) THEN b ELSE a

FMax(a, b) == IF FLt(a, b) THEN b ELSE a

\* math.Mod(a, m) for m > 0: the result has the sign of a
FMod(a, m) ==
    LET q == (Abs(a.num) * m.den) \div (a.den * m.num)
        r == FSub(Frac(Abs(a.num), a.den), FMul(Frac(q, 1), m))
    IN IF a.num < 0 THEN Frac(-r.num, r.den) ELSE r

-----------------------------------------------------------------------------
(* float64 values with their IEEE-754 rounding (round to nearest, ties to
   even): (-1)^neg * man * 2^exp, where man is a natural number kept as
   little-endian digits in base 2^14, with 53 bits for every value but zero
   (man = <<>>).  The values of the colour code stay in the normal range, so
   exp is unbounded here, and the sign of zero, which no operation of the
   colour code observes, is not kept. *)

Limb == 16384

RECURSIVE BigNorm(_)
BigNorm(a) ==
    IF a # <<>> /\ a[Len(a)] = 0 THEN BigNorm(SubSeq(a, 1, Len(a) - 1)) ELSE a

\* a natural number below 2^31
BigFromInt(n) == BigNorm(<<n % Limb, (n \div Limb) % Limb, n \div (Limb * Limb)>>)

BigDigit(a, i) == IF i >= 1 /\ i <= Len(a) THEN a[i] ELSE 0

BigToInt(a) == BigDigit(a, 1) + Limb * BigDigit(a, 2) + Limb * Limb * BigDigit(a, 3)

\* the digits of a + b from digit i on, after the digits in sum
RECURSIVE BigAddFrom(_, _, _, _, _)
BigAddFrom(a, b, i, carry, sum) ==
    IF i > Len(a) /\ i > Len(b) THEN (IF carry = 0 THEN sum ELSE Append(sum, carry))
    ELSE LET d == BigDigit(a, i) + BigDigit(b, i) + carry
         IN BigAddFrom(a, b, i + 1, d \div Limb, Append(sum, d % Limb))

BigAdd(a, b) == BigAddFrom(a, b, 1, 0, <<>>)

\* a - b for a >= b
RECURSIVE BigSubFrom(_, _, _, _, _)
BigSubFrom(a, b, i, borrow, diff) ==
    IF i > Len(a) THEN diff
    ELSE LET d == a[i] - BigDigit(b, i) - borrow
         IN BigSubFrom(a, b, i + 1, IF d < 0 THEN 1 ELSE 0, Append(diff, (d + Limb) % Limb))

BigSub(a, b) == BigNorm(BigSubFrom(a, b, 1, 0, <<>>))

RECURSIVE BigCmpFrom(_, _, _)
BigCmpFrom(a, b, i) ==
    IF i = 0 THEN 0
    ELSE IF a[i] < b[i] THEN -1
    ELSE IF a[i] > b[i] THEN 1
    ELSE BigCmpFrom(a, b, i - 1)

\* -1, 0 or 1
BigCmp(a, b) ==
    IF Len(a) < Len(b) THEN -1
    ELSE IF Len(a) > Len(b) THEN 1
    ELSE BigCmpFrom(a, b, Len(a))

\* the sum of a[i] * b[k + 1 - i] from digit i of a to its digit j
RECURSIVE BigColumn(_, _, _, _, _)
BigColumn(a, b, k, i, j) ==
    IF i > j THEN 0 ELSE a[i] * b[k + 1 - i] + BigColumn(a, b, k, i + 1, j)

RECURSIVE BigMulFrom(_, _, _, _, _)
BigMulFrom(a, b, k, carry, prod) ==
    IF k > Len(a) + Len(b) THEN prod
    ELSE LET lo == IF k > Len(b) THEN k + 1 - Len(b) ELSE 1
             hi == IF k > Len(a) THEN Len(a) ELSE k
             d == BigColumn(a, b, k, lo, hi) + carry
         IN BigMulFrom(a, b, k + 1, d \div Limb, Append(prod, d % Limb))

\* a * b when one of them has at most 7 digits
BigMul(a, b) == BigNorm(BigMulFrom(a, b, 1, 0, <<>>))

RECURSIVE BigZeros(_)
BigZeros(k) == IF k = 0 THEN <<>> ELSE <<0>> \o BigZeros(k - 1)

\* a * 2^sh
BigShl(a, sh) ==
    IF a = <<>> THEN <<>>
    ELSE IF sh % 14 = 0 THEN BigZeros(sh \div 14) \o a
    ELSE BigZeros(sh \div 14) \o BigMul(a, <<2 ^ (sh % 14)>>)

\* quotient and remainder of a by d, for 0 < d < 2^17, from digit i down,
\* after the quotient digits in quo and with r carried over
RECURSIVE BigDivFrom(_, _, _, _, _)
BigDivFrom(a, d, i, r, quo) ==
    IF i = 0 THEN [quo |-> BigNorm(quo), rem |-> r]
    ELSE LET n == r * Limb + a[i]
         IN BigDivFrom(a, d, i - 1, n % d, <<n \div d>> \o quo)

BigDivSmall(a, d) == BigDivFrom(a, d, Len(a), 0, <<>>)

\* a \div 2^sh
BigShr(a, sh) ==
    IF sh \div 14 >= Len(a) THEN <<>>
    ELSE IF sh % 14 = 0 THEN SubSeq(a, sh \div 14 + 1, Len(a))
    ELSE BigDivSmall(SubSeq(a, sh \div 14 + 1, Len(a)), 2 ^ (sh % 14)).quo

\* the number of bits of a digit
IntBits(n) ==
    IF n < 128
    THEN IF n < 8 THEN (IF n < 2 THEN n ELSE IF n < 4 THEN 2 ELSE 3)
         ELSE IF n < 32 THEN (IF n < 16 THEN 4 ELSE 5)
         ELSE IF n < 64 THEN 6 ELSE 7
    ELSE IF n < 2048
    THEN IF n < 512 THEN (IF n < 256 THEN 8 ELSE 9)
         ELSE IF n < 1024 THEN 10 ELSE 11
    ELSE IF n < 4096 THEN 12
    ELSE IF n < 8192 THEN 13 ELSE 14

BigBits(a) == IF a = <<>> THEN 0 ELSE 14 * (Len(a) - 1) + IntBits(a[Len(a)])

BigOdd(a) == a # <<>> /\ a[1] % 2 = 1

F64(neg, man, exp) == [neg |-> neg, man |-> man, exp |-> exp]

F64Zero == F64(FALSE, <<>>, 0)

\* q is n \div 2^sh for the n of F64Round, r the bits of n below 2^sh down
\* to the last digit dropped whole, k their number (1..14), below whether
\* anything lies below the half bit
F64RoundUp(neg, q, r, k, e, below) ==
    IF r >= 2 ^ (k - 1) /\ (below \/ r > 2 ^ (k - 1) \/ BigOdd(q))
    THEN IF BigBits(BigAdd(q, <<1>>)) = 54
         THEN F64(neg, <<0, 0, 0, 1024>>, e + 1)
         ELSE F64(neg, BigAdd(q, <<1>>), e)
    ELSE F64(neg, q, e)

\* n * 2^e of more than 53 bits: drop the low digits whole digits, then the
\* k low bits of the rest
F64RoundWide(neg, n, e, sticky, sh, whole) ==
    LET d == BigDivSmall(SubSeq(n, whole + 1, Len(n)), 2 ^ (sh - 14 * whole))
    IN F64RoundUp(neg, d.quo, d.rem, sh - 14 * whole, e + sh,
                  sticky \/ \E i \in 1 .. whole : n[i] # 0)

\* the float64 nearest to (-1)^neg * n * 2^e (plus a non-zero fraction of
\* 2^e when sticky), ties to even
F64Round(neg, n, e, sticky) ==
    LET bits == BigBits(n)
    IN IF n = <<>> THEN F64Zero
       ELSE IF bits = 53 THEN F64(neg, n, e)
       ELSE IF bits < 53 THEN F64(neg, BigShl(n, 53 - bits), e - (53 - bits))
       ELSE F64RoundWide(neg, n, e, sticky, bits - 53, (bits - 54) \div 14)

\* the float64 nearest to a number man * 2^exp of any length
F64Nearest(u) == F64Round(u.neg, u.man, u.exp, FALSE)

\* math.Ldexp(float64(k), e): k * 2^e
F64Ldexp(k, e) == F64Round(k < 0, BigFromInt(IF k < 0 THEN -k ELSE k), e, FALSE)

\* float64(n) of an integer
F64FromInt(n) == F64Round(n < 0, BigFromInt(IF n < 0 THEN -n ELSE n), 0, FALSE)

F64Neg(x) == IF x.man = <<>> THEN x ELSE F64(~x.neg, x.man, x.exp)

\* math.Abs
F64Abs(x) == F64(FALSE, x.man, x.exp)

\* x * y
F64Mul(x, y) == F64Round(x.neg # y.neg, BigMul(x.man, y.man), x.exp + y.exp, FALSE)

\* x / d for the constants 255.0, 65535.0 and 60.0 of the colour code
F64DivInt(x, d) ==
    LET q == BigDivSmall(<<0, 0>> \o x.man, d)
    IN IF x.man = <<>> THEN x ELSE F64Round(x.neg, q.quo, x.exp - 28, q.rem # 0)

\* the difference of two numbers m * 2^e of one e, the first of sign neg and
\* the second of the other sign, before rounding
F64Diff(neg, m1, m2, e) ==
    LET c == BigCmp(m1, m2)
    IN IF c = 0 THEN F64Zero
       ELSE IF c > 0 THEN F64(neg, BigSub(m1, m2), e)
       ELSE F64(~neg, BigSub(m2, m1), e)

\* the sum of two numbers n * 2^e, the first with the larger e, before
\* rounding; a gap of more than 128 bits leaves of the second only the side
\* on which it lies
F64SumOrdered(neg1, n1, e1, neg2, n2, e2) ==
    IF e1 - e2 > 128
    THEN IF neg1 = neg2 THEN F64(neg1, BigAdd(BigShl(n1, 3), <<1>>), e1 - 3)
         ELSE F64(neg1, BigSub(BigShl(n1, 3), <<1>>), e1 - 3)
    ELSE IF neg1 = neg2 THEN F64(neg1, BigAdd(BigShl(n1, e1 - e2), n2), e2)
    ELSE F64Diff(neg1, BigShl(n1, e1 - e2), n2, e2)

\* the float64 nearest to the sum of two numbers n * 2^e
F64Sum(neg1, n1, e1, neg2, n2, e2) ==
    LET first == n2 = <<>> \/ (n1 # <<>> /\ e1 >= e2)
        u == IF n1 = <<>> \/ n2 = <<>>
             THEN (IF first THEN F64(neg1, n1, e1) ELSE F64(neg2, n2, e2))
             ELSE F64SumOrdered(IF first THEN neg1 ELSE neg2, IF first THEN n1 ELSE n2,
                                IF first THEN e1 ELSE e2, IF first THEN neg2 ELSE neg1,
                                IF first THEN n2 ELSE n1, IF first THEN e2 ELSE e1)
    IN F64Nearest(u)

\* x + y and x - y
F64Add(x, y) == F64Sum(x.neg, x.man, x.exp, y.neg, y.man, y.exp)

F64Sub(x, y) == F64Add(x, F64Neg(y))

\* x * y + z rounded once: the fused multiply-add a compiler may emit for a
\* product that feeds a sum
F64Fma(x, y, z) ==
    F64Sum(x.neg # y.neg, BigMul(x.man, y.man), x.exp + y.exp, z.neg, z.man, z.exp)

\* -1, 0 or 1 as x is below, equal to or above y
F64Sign(x) == IF x.man = <<>> THEN 0 ELSE IF x.neg THEN -1 ELSE 1

F64Cmp(x, y) ==
    IF F64Sign(x) # F64Sign(y) THEN (IF F64Sign(x) < F64Sign(y) THEN -1 ELSE 1)
    ELSE IF F64Sign(x) = 0 THEN 0
    ELSE IF x.exp # y.exp THEN F64Sign(x) * (IF x.exp < y.exp THEN -1 ELSE 1)
    ELSE F64Sign(x) * BigCmp(x.man, y.man)

F64Le(x, y) == F64Cmp(x, y) <= 0

F64Lt(x, y) == F64Cmp(x, y) < 0

\* math.Min and math.Max
F64Min(x, y) == IF F64Lt(y, x) THEN y ELSE x

F64Max(x, y) == IF F64Lt(x, y) THEN y ELSE x

\* math.Mod(x, m) for the constants 2.0 and 360.0: exact, with the sign of x
F64Mod(x, m) ==
    IF x.man = <<>> \/ x.exp >= 0
    THEN F64Round(x.neg, BigFromInt(BigDivSmall(BigShl(x.man, x.exp), m).rem), 0, FALSE)
    ELSE LET whole == BigShr(x.man, -x.exp)
         IN F64Round(x.neg,
                     BigAdd(BigShl(BigFromInt(BigDivSmall(whole, m).rem), -x.exp),
                            BigSub(x.man, BigShl(whole, -x.exp))),
                     x.exp, FALSE)

\* uint32(x) of a float64 in [0, 2^31): truncation
F64Trunc(x) ==
    IF x.exp >= 0 THEN BigToInt(BigShl(x.man, x.exp)) ELSE BigToInt(BigShr(x.man, -x.exp))

-----------------------------------------------------------------------------
(* Unsigned integer arithmetic of the colour code *)

U8(x) == x % 256

U16(x) == x % 65536

\* Go's integer division and remainder truncate toward zero
GoDiv(a, b) == IF a >= 0 THEN a \div b ELSE -((-a) \div b)

GoMod(a, b) == a - b * GoDiv(a, b)

\* the uint32 expression (x * y + c) / d for x, y <= 65535 and c <= 65535
\* (the sum stays below 2^32, so it never wraps), computed by long division
\* in base 256 so that no intermediate exceeds 2^31
MulAddDiv(x, y, c, d) ==
    LET hi == x * (y \div 256)
        lo == x * (y % 256) + c
    IN (hi \div d) * 256 + ((hi % d) * 256 + lo) \div d

\* the uint32 expression (x * y) / d
MulDiv(x, y, d) == MulAddDiv(x, y, 0, d)

-----------------------------------------------------------------------------
(* Colours: records tagged with their Go type *)

NHSVA(h, s0, v, a) == [type |-> "NHSVA", H |-> h, S |-> s0, V |-> v, A |-> a]

NHSVA64(h, s0, v, a) == [type |-> "NHSVA64", H |-> h, S |-> s0, V |-> v, A |-> a]

NHSVAF64(h, s0, v, a) == [type |-> "NHSVAF64", H |-> h, S |-> s0, V |-> v, A |-> a]

\* the four elements of Pix that hold a colour of one element a channel
Channels(c) == <<c.H, c.S, c.V, c.A>>

\* colours of Go's image/color package that callers hand to Set and Convert
Gray(y) == [type |-> "Gray", Y |-> y]

Gray16(y) == [type |-> "Gray16", Y |-> y]

Alpha16(a) == [type |-> "Alpha16", A |-> a]

NRGBA(r, g, b, a) == [type |-> "NRGBA", R |-> r, G |-> g, B |-> b, A |-> a]

NRGBA64(r, g, b, a) == [type |-> "NRGBA64", R |-> r, G |-> g, B |-> b, A |-> a]

RGBA64(r, g, b, a) == [type |-> "RGBA64", R |-> r, G |-> g, B |-> b, A |-> a]

\* image.Opaque and image.Transparent are uniform images of these colours
ColorOpaque == Alpha16(65535)

ColorTransparent == Alpha16(0)

NoColor == [type |-> "none"]

\* min3uint32 and max3uint32
min3uint32(a, b, c) ==
    LET m == IF b < a THEN b ELSE a
    IN IF c < m THEN c ELSE m

max3uint32(a, b, c) ==
    LET m == IF b > a THEN b ELSE a
    IN IF c > m THEN c ELSE m

\* variant: NHSVA.RGBA on its grayscale path without the rounding term
NHSVA_RGBA_Gray_Truncating(c) ==
    LET v16 == c.V + c.V * 256
        a16 == c.A + c.A * 256
        v16pm == MulAddDiv(v16, a16, 0, 65535)
    IN <<v16pm, v16pm, v16pm, a16>>

\* variant: NHSVA.RGBA on its grayscale path without the premultiplication
NHSVA_RGBA_Gray_Straight(c) ==
    LET v16 == c.V + c.V * 256
        a16 == c.A + c.A * 256
    IN <<v16, v16, v16, a16>>

\* NHSVA.RGBA and NHSVA64.RGBA on their grayscale path (c.S = 0)
NHSVA_RGBA_Gray(c) ==
    LET v16 == c.V + c.V * 256
        a16 == c.A + c.A * 256
        v16pm == MulAddDiv(v16, a16, 32768, 65535)
    IN <<v16pm, v16pm, v16pm, a16>>

\* variant: NHSVA64.RGBA with v16pm := v16 * a16 / 65535
NHSVA64_RGBA_Gray_Truncating(c) ==
    LET v16pm == MulDiv(c.V, c.A, 65535)
    IN <<v16pm, v16pm, v16pm, c.A>>

NHSVA64_RGBA_Gray(c) ==
    LET a16 == c.A
        v16pm == MulAddDiv(c.V, a16, 32768, 65535)
    IN <<v16pm, v16pm, v16pm, a16>>

\* the float64 constants of the colour code
F64One == F64FromInt(1)

F64Full == F64FromInt(65535)

F64Degrees == F64FromInt(360)

\* the sector bounds 1.0 .. 6.0
F64Sectors == [k \in 1 .. 6 |-> F64FromInt(k)]

\* a float64 channel given as the fraction num/den: float64(num) / den
F64Of(x) == IF "man" \in DOMAIN x THEN x ELSE F64DivInt(F64FromInt(x.num), x.den)

\* the outcome of an RGBA method: <<r, g, b, a>>, or a panic
Converted(rgba) == [ok |-> TRUE, val |-> rgba]

Panicked(msg) == [ok |-> FALSE, val |-> msg]

\* The sums of a product the compiler may fuse with it (Go lets a build round
\* x*y + z once): "mf" is vf - vf*sf, "sum" the channel sums cf + mf and
\* cf*(...) + mf.  A build fuses any of them or none.
FusedBuilds == SUBSET {"mf", "sum"}

\* variant: nhsvaFloat64ToRGBA without the multiplication by alpha
nhsvaPremultiply_NoAlpha(rf, gf, bf, af) ==
    Converted(<<F64Trunc(F64Mul(rf, F64Full)), F64Trunc(F64Mul(gf, F64Full)),
                F64Trunc(F64Mul(bf, F64Full)), F64Trunc(F64Mul(af, F64Full))>>)

\* nhsvaFloat64ToRGBA, "Premultiply by alpha then convert from float64 to
\* uint32"
nhsvaPremultiply(rf, gf, bf, af) ==
    Converted(<<F64Trunc(F64Mul(F64Mul(rf, af), F64Full)),
                F64Trunc(F64Mul(F64Mul(gf, af), F64Full)),
                F64Trunc(F64Mul(F64Mul(bf, af), F64Full)),
                F64Trunc(F64Mul(af, F64Full))>>)

\* variant: the switch with case hf6 < 6.0 for the last sector
nhsvaSector_SixExcluded(hf6, cm, xm, zm) ==
    IF F64Lt(hf6, F64Zero) THEN Panicked("Internal error in RGBA (hf6 too small)")
    ELSE IF F64Le(hf6, F64Sectors[1]) THEN Converted(<<cm, xm, zm>>)
    ELSE IF F64Le(hf6, F64Sectors[2]) THEN Converted(<<xm, cm, zm>>)
    ELSE IF F64Le(hf6, F64Sectors[3]) THEN Converted(<<zm, cm, xm>>)
    ELSE IF F64Le(hf6, F64Sectors[4]) THEN Converted(<<zm, xm, cm>>)
    ELSE IF F64Le(hf6, F64Sectors[5]) THEN Converted(<<xm, zm, cm>>)
    ELSE IF F64Lt(hf6, F64Sectors[6]) THEN Converted(<<cm, zm, xm>>)
    ELSE Panicked("Internal error in RGBA (hf6 too large)")

\* nhsvaFloat64ToRGBA, the switch on hf6: rf, gf, bf from the three channel
\* values cf + mf, xf + mf and 0.0 + mf
nhsvaSector(hf6, cm, xm, zm) ==
    IF F64Lt(hf6, F64Zero) THEN Panicked("Internal error in RGBA (hf6 too small)")
    ELSE IF F64Le(hf6, F64Sectors[1]) THEN Converted(<<cm, xm, zm>>)
    ELSE IF F64Le(hf6, F64Sectors[2]) THEN Converted(<<xm, cm, zm>>)
    ELSE IF F64Le(hf6, F64Sectors[3]) THEN Converted(<<zm, cm, xm>>)
    ELSE IF F64Le(hf6, F64Sectors[4]) THEN Converted(<<zm, xm, cm>>)
    ELSE IF F64Le(hf6, F64Sectors[5]) THEN Converted(<<xm, zm, cm>>)
    ELSE IF F64Le(hf6, F64Sectors[6]) THEN Converted(<<cm, zm, xm>>)
    ELSE Panicked("Internal error in RGBA (hf6 too large)")

\* nhsvaFloat64ToRGBA past the switch: the channels rf, gf, bf it has set,
\* premultiplied and converted, unless it has panicked
nhsvaPastSwitch(sector, af) ==
    IF sector.ok
    THEN nhsvaPremultiply(sector.val[1], sector.val[2], sector.val[3], af)
    ELSE sector

\* nhsvaFloat64ToRGBA, 1.0 - math.Abs(math.Mod(hf6, 2.0) - 1.0)
nhsvaRamp(hf6) == F64Sub(F64One, F64Abs(F64Sub(F64Mod(hf6, 2), F64One)))

\* nhsvaFloat64ToRGBA, mf := vf - cf
nhsvaMf(sf, vf, cf, fused) ==
    IF "mf" \in fused THEN F64Fma(F64Neg(vf), sf, vf) ELSE F64Sub(vf, cf)

\* nhsvaFloat64ToRGBA from cf, the ramp and mf on
nhsvaFromChroma(hf6, sf, vf, af, cf, tf, mf, fused) ==
    nhsvaPastSwitch(nhsvaSector(hf6,
                                IF "sum" \in fused THEN F64Fma(vf, sf, mf) ELSE F64Add(cf, mf),
                                IF "sum" \in fused THEN F64Fma(cf, tf, mf)
                                ELSE F64Add(F64Mul(cf, tf), mf),
                                F64Add(F64Zero, mf)),
                    af)

nhsvaFromHf6(hf6, sf, vf, af, cf, fused) ==
    nhsvaFromChroma(hf6, sf, vf, af, cf, nhsvaRamp(hf6), nhsvaMf(sf, vf, cf, fused), fused)

\* nhsvaFloat64ToRGBA on a build that fuses the sums in fused
nhsvaFloat64ToRGBA(hf, sf, vf, af, fused) ==
    nhsvaFromHf6(F64DivInt(hf, 60), sf, vf, af, F64Mul(vf, sf), fused)

\* variant: NHSVA.RGBA with af := float64(c.A) / 256.0
NHSVA_RGBA_Chromatic_Alpha256(c, fused) ==
    nhsvaFloat64ToRGBA(F64DivInt(F64Mul(F64FromInt(c.H), F64Degrees), 255),
                       F64DivInt(F64FromInt(c.S), 255),
                       F64DivInt(F64FromInt(c.V), 255),
                       F64DivInt(F64FromInt(c.A), 256), fused)

\* variant: NHSVA.RGBA with hf := float64(c.H) * 360.0 / 256.0
NHSVA_RGBA_Chromatic_Hue256(c, fused) ==
    nhsvaFloat64ToRGBA(F64DivInt(F64Mul(F64FromInt(c.H), F64Degrees), 256),
                       F64DivInt(F64FromInt(c.S), 255),
                       F64DivInt(F64FromInt(c.V), 255),
                       F64DivInt(F64FromInt(c.A), 255), fused)

\* NHSVA.RGBA and NHSVA64.RGBA past the grayscale path
NHSVA_RGBA_Chromatic(c, fused) ==
    nhsvaFloat64ToRGBA(F64DivInt(F64Mul(F64FromInt(c.H), F64Degrees), 255),
                       F64DivInt(F64FromInt(c.S), 255),
                       F64DivInt(F64FromInt(c.V), 255),
                       F64DivInt(F64FromInt(c.A), 255), fused)

NHSVA64_RGBA_Chromatic(c, fused) ==
    nhsvaFloat64ToRGBA(F64DivInt(F64Mul(F64FromInt(c.H), F64Degrees), 65535),
                       F64DivInt(F64FromInt(c.S), 65535),
                       F64DivInt(F64FromInt(c.V), 65535),
                       F64DivInt(F64FromInt(c.A), 65535), fused)

\* the closures clamp01 and wrap360 of NHSVAF64.RGBA
clamp01(x) == F64Max(F64Zero, F64Min(F64One, x))

wrap360(x) == F64Mod(F64Add(F64Mod(x, 360), F64Degrees), 360)

\* NHSVAF64.RGBA on its grayscale path, from the clamped vf and af
NHSVAF64_RGBA_Gray(vf, af) ==
    Converted(<<F64Trunc(F64Mul(F64Mul(vf, af), F64Full)),
                F64Trunc(F64Mul(F64Mul(vf, af), F64Full)),
                F64Trunc(F64Mul(F64Mul(vf, af), F64Full)),
                F64Trunc(F64Mul(af, F64Full))>>)

\* NHSVAF64.RGBA from the wrapped hue and the clamped channels
NHSVAF64_RGBA_From(hf, sf, vf, af, fused) ==
    IF sf = F64Zero THEN NHSVAF64_RGBA_Gray(vf, af)
    ELSE nhsvaFloat64ToRGBA(hf, sf, vf, af, fused)

NHSVAF64_RGBA(c, fused) ==
    NHSVAF64_RGBA_From(wrap360(F64Of(c.H)), clamp01(F64Of(c.S)), clamp01(F64Of(c.V)),
                       clamp01(F64Of(c.A)), fused)

\* c.RGBA() on a build that fuses the sums in fused: the outcome
RGBAOn(c, fused) ==
    CASE c.type = "Gray" -> Converted(<<c.Y * 257, c.Y * 257, c.Y * 257, 65535>>)
      [] c.type = "Gray16" -> Converted(<<c.Y, c.Y, c.Y, 65535>>)
      [] c.type = "Alpha16" -> Converted(<<c.A, c.A, c.A, c.A>>)
      [] c.type = "NRGBA" ->
            Converted(<<(c.R * 257 * c.A) \div 255, (c.G * 257 * c.A) \div 255,
                        (c.B * 257 * c.A) \div 255, c.A * 257>>)
      [] c.type = "NRGBA64" ->
            Converted(<<MulDiv(c.R, c.A, 65535), MulDiv(c.G, c.A, 65535),
                        MulDiv(c.B, c.A, 65535), c.A>>)
      [] c.type = "RGBA64" -> Converted(<<c.R, c.G, c.B, c.A>>)
      [] c.type = "NHSVA" ->
            IF c.S = 0 THEN Converted(NHSVA_RGBA_Gray(c)) ELSE NHSVA_RGBA_Chromatic(c, fused)
      [] c.type = "NHSVA64" ->
            IF c.S = 0 THEN Converted(NHSVA64_RGBA_Gray(c)) ELSE NHSVA64_RGBA_Chromatic(c, fused)
      [] c.type = "NHSVAF64" -> NHSVAF64_RGBA(c, fused)

\* c.RGBA(): alpha-premultiplied 16-bit channels <<r, g, b, a>>, on a build
\* that fuses nothing
RGBA(c) == RGBAOn(c, {}).val

\* variant: nhsva64Model scaling the hue to 16 bits without rounding
nhsva64Hue_Truncating(r, g, b, cMax, delta) ==
    LET hs == IF cMax = r THEN GoDiv(60 * (g - b), delta) + 0
              ELSE IF cMax = g THEN GoDiv(60 * (b - r), delta) + 120
              ELSE GoDiv(60 * (r - g), delta) + 240
    IN GoDiv(GoMod(hs + 360, 360) * 65535, 360)

\* variant: nhsva64Model scaling the hue with 360 degrees at 65536
nhsva64Hue_MaxPlus1(r, g, b, cMax, delta) ==
    LET hs == IF cMax = r THEN GoDiv(60 * (g - b), delta) + 0
              ELSE IF cMax = g THEN GoDiv(60 * (b - r), delta) + 120
              ELSE GoDiv(60 * (r - g), delta) + 240
    IN GoDiv(GoMod(hs + 360, 360) * 65536 + 180, 360)

\* variant: nhsva64Model without the "% 360" of "Make positive"
nhsva64Hue_NoWrap(r, g, b, cMax, delta) ==
    LET hs == IF cMax = r THEN GoDiv(60 * (g - b), delta) + 0
              ELSE IF cMax = g THEN GoDiv(60 * (b - r), delta) + 120
              ELSE GoDiv(60 * (r - g), delta) + 240
    IN GoDiv((hs + 360) * 65535 + 180, 360)

\* nhsva64Model, "Compute hue": the hue in degrees, then scaled to 16 bits
nhsva64Hue(r, g, b, cMax, delta) ==
    LET hs == IF cMax = r THEN GoDiv(60 * (g - b), delta) + 0
              ELSE IF cMax = g THEN GoDiv(60 * (b - r), delta) + 120
              ELSE GoDiv(60 * (r - g), delta) + 240
    IN GoDiv(GoMod(hs + 360, 360) * 65535 + 180, 360)

\* nhsva64Model, "Compute the easy channels" onward, from the
\* non-premultiplied r, g, b and their extremes
nhsva64FromRange(r, g, b, a, cMin, cMax) ==
    LET delta == cMax - cMin
        s0 == IF cMax > 0 THEN MulDiv(65535, delta, cMax) ELSE 0
    IN IF delta = 0 THEN NHSVA64(0, 0, U16(cMax), U16(a))
       ELSE NHSVA64(U16(nhsva64Hue(r, g, b, cMax, delta)), U16(s0), U16(cMax), U16(a))

\* nhsva64Model from non-premultiplied r, g, b
nhsva64FromNRGB(r, g, b, a) ==
    nhsva64FromRange(r, g, b, a, min3uint32(r, g, b), max3uint32(r, g, b))

\* variant: nhsva64Model without "Convert from premultiplied RGBA to
\* non-premultiplied RGBA"
nhsva64FromRGBA_Premultiplied(rgba) ==
    IF rgba[4] = 0 THEN NHSVA64(0, 0, 0, 0)
    ELSE nhsva64FromNRGB(rgba[1], rgba[2], rgba[3], rgba[4])

\* nhsva64Model from the premultiplied <<r, g, b, a>> of c.RGBA()
nhsva64FromRGBA(rgba) ==
    IF rgba[4] = 0 THEN NHSVA64(0, 0, 0, 0)
    ELSE nhsva64FromNRGB(MulDiv(rgba[1], 65535, rgba[4]), MulDiv(rgba[2], 65535, rgba[4]),
                         MulDiv(rgba[3], 65535, rgba[4]), rgba[4])

\* nhsva64Model: any colour to NHSVA64, on a build that fuses the sums in
\* fused in the colour's RGBA()
nhsva64ModelOn(c, fused) ==
    IF c.type = "NHSVA64" THEN c ELSE nhsva64FromRGBA(RGBAOn(c, fused).val)

nhsva64Model(c) == nhsva64ModelOn(c, {})

\* variant: the closure scale without the rounding term
scale_Truncating(n16) == U8((n16 * 255) \div 65535)

\* the closure scale of nhsvaModel
scale(n16) == U8((n16 * 255 + 32768) \div 65535)

\* variant: nhsvaModel keeping the high byte of each 16-bit channel
nhsvaScaleDown_HighByte(nhsva64) ==
    NHSVA(nhsva64.H \div 256, nhsva64.S \div 256, nhsva64.V \div 256, nhsva64.A \div 256)

\* nhsvaModel, "scale it down to 32 bits"
nhsvaScaleDown(nhsva64) ==
    NHSVA(scale(nhsva64.H), scale(nhsva64.S), scale(nhsva64.V), scale(nhsva64.A))

\* variant: nhsvaModel without "the easy case first: already NHSVA"
nhsvaModelOn_NoEasyCase(c, fused) == nhsvaScaleDown(nhsva64ModelOn(c, fused))

\* nhsvaModel: any colour to NHSVA
nhsvaModelOn(c, fused) ==
    IF c.type = "NHSVA" THEN c ELSE nhsvaScaleDown(nhsva64ModelOn(c, fused))

nhsvaModel(c) == nhsvaModelOn(c, {})

\* nhsvaF64Model, "Compute hue"
nhsvaF64Hue(rf, gf, bf, cMax, delta) ==
    LET hs == IF cMax = rf THEN FAdd(FDiv(FSub(gf, bf), delta), F0)
              ELSE IF cMax = gf THEN FAdd(FDiv(FSub(bf, rf), delta), Frac(2, 1))
              ELSE FAdd(FDiv(FSub(rf, gf), delta), Frac(4, 1))
    IN FMod(FAdd(FMul(hs, Frac(60, 1)), Frac(360, 1)), Frac(360, 1))

\* nhsvaF64Model, "Compute the easy channels" onward
nhsvaF64FromRange(rf, gf, bf, af, cMin, cMax) ==
    LET delta == FSub(cMax, cMin)
        sf == IF FLt(F0, cMax) THEN FDiv(delta, cMax) ELSE F0
    IN IF delta = F0 THEN NHSVAF64(F0, F0, cMax, af)
       ELSE NHSVAF64(nhsvaF64Hue(rf, gf, bf, cMax, delta), sf, cMax, af)

\* nhsvaF64Model from non-premultiplied rf, gf, bf
nhsvaF64FromNRGB(rf, gf, bf, af) ==
    nhsvaF64FromRange(rf, gf, bf, af, FMin(FMin(rf, gf), bf), FMax(FMax(rf, gf), bf))

\* nhsvaF64Model from the channels as floats in [0, 1]
nhsvaF64FromFloats(rf, gf, bf, af) ==
    nhsvaF64FromNRGB(FDiv(rf, af), FDiv(gf, af), FDiv(bf, af), af)

\* nhsvaF64Model from the premultiplied <<r, g, b, a>> of c.RGBA()
nhsvaF64FromRGBA(rgba) ==
    IF rgba[4] = 0 THEN NHSVAF64(F0, F0, F0, F0)
    ELSE nhsvaF64FromFloats(Frac(rgba[1], 65535), Frac(rgba[2], 65535),
                            Frac(rgba[3], 65535), Frac(rgba[4], 65535))

\* nhsvaF64Model: any colour to NHSVAF64
nhsvaF64ModelOn(c, fused) ==
    IF c.type = "NHSVAF64" THEN c ELSE nhsvaF64FromRGBA(RGBAOn(c, fused).val)

nhsvaF64Model(c) == nhsvaF64ModelOn(c, {})

-----------------------------------------------------------------------------
(* image.go: the NHSVA buffer (8-bit channels, 4 bytes a pixel) *)

\* a buffer header
Image(pix, stride, rect) == [Pix |-> pix, Stride |-> stride, Rect |-> rect]

\* the zero-valued header &NHSVA{}, &NHSVA64{}, &NHSVAF64{}
ZeroImage == Image(NilPix, 0, ZR)

Ret(ok, val) == [ok |-> ok, val |-> val]

NHSVA_PixOffset(q, x, y) ==
    (y - q.Rect.Min.Y) * q.Stride + (x - q.Rect.Min.X) * 4

NHSVAAt(a, q, x, y) ==
    IF ~In(Pt(x, y), q.Rect) THEN Ret(TRUE, NHSVA(0, 0, 0, 0))
    ELSE
    LET i == NHSVA_PixOffset(q, x, y)
    IN IF ~Slice3OK(q.Pix, i, i + 4) THEN Ret(FALSE, NoColor)
       ELSE Ret(TRUE, NHSVA(Elem(a, q.Pix, i), Elem(a, q.Pix, i + 1),
                            Elem(a, q.Pix, i + 2), Elem(a, q.Pix, i + 3)))

NHSVA_At(a, q, x, y) == NHSVAAt(a, q, x, y)

SetNHSVA(a, q, x, y, c) ==
    IF ~In(Pt(x, y), q.Rect) THEN Ret(TRUE, a)
    ELSE
    LET i == NHSVA_PixOffset(q, x, y)
    IN IF ~Slice3OK(q.Pix, i, i + 4) THEN Ret(FALSE, a)
       ELSE Ret(TRUE, Store(a, q.Pix, i, <<c.H, c.S, c.V, c.A>>))

\* variant: the generic setter without its bounds check
NHSVA_Set_Unchecked(a, q, x, y, c) ==
    LET i == NHSVA_PixOffset(q, x, y)
        c1 == nhsvaModel(c)
    IN IF ~Slice3OK(q.Pix, i, i + 4) THEN Ret(FALSE, a)
       ELSE Ret(TRUE, Store(a, q.Pix, i, Channels(c1)))

NHSVA_Set(a, q, x, y, c) ==
    IF ~In(Pt(x, y), q.Rect) THEN Ret(TRUE, a)
    ELSE
    LET i == NHSVA_PixOffset(q, x, y)
        c1 == nhsvaModel(c)
    IN IF ~Slice3OK(q.Pix, i, i + 4) THEN Ret(FALSE, a)
       ELSE Ret(TRUE, Store(a, q.Pix, i, Channels(c1)))

\* variant: the sub-image keeps the parent's whole Pix instead of Pix[i:]
NHSVA_SubImage_NoReslice(q, r0) ==
    LET r == Intersect(r0, q.Rect)
    IN IF Empty(r) THEN Ret(TRUE, ZeroImage)
       ELSE Ret(TRUE, Image(q.Pix, q.Stride, r))

\* variant: the sub-image's Pix ends after its own last row, 4*Dx*Dy long
NHSVA_SubImage_Bounded(q, r0) ==
    LET r == Intersect(r0, q.Rect)
    IN IF Empty(r) THEN Ret(TRUE, ZeroImage)
       ELSE
       LET i == NHSVA_PixOffset(q, r.Min.X, r.Min.Y)
       IN IF ~SliceFromOK(q.Pix, i) THEN Ret(FALSE, ZeroImage)
          ELSE Ret(TRUE, Image([off |-> q.Pix.off + i, len |-> 4 * Dx(r) * Dy(r)], q.Stride, r))

NHSVA_SubImage(q, r0) ==
    LET r == Intersect(r0, q.Rect)
    IN IF Empty(r) THEN Ret(TRUE, ZeroImage)
       ELSE
       LET i == NHSVA_PixOffset(q, r.Min.X, r.Min.Y)
       IN IF ~SliceFromOK(q.Pix, i) THEN Ret(FALSE, ZeroImage)
          ELSE Ret(TRUE, Image(SliceFrom(q.Pix, i), q.Stride, r))

\* the loops of Opaque: rows y .. Max.Y-1, samples i, i+4, ... below i1
RECURSIVE NHSVA_OpaqueLoop(_, _, _, _, _, _)
NHSVA_OpaqueLoop(a, q, y, i0, i1, i) ==
    IF y >= q.Rect.Max.Y THEN Ret(TRUE, TRUE)
    ELSE IF i >= i1
         THEN NHSVA_OpaqueLoop(a, q, y + 1, i0 + q.Stride, i1 + q.Stride, i0 + q.Stride)
    ELSE IF ~IndexOK(q.Pix, i) THEN Ret(FALSE, FALSE)
    ELSE IF Elem(a, q.Pix, i) # 255 THEN Ret(TRUE, FALSE)
    ELSE NHSVA_OpaqueLoop(a, q, y, i0, i1, i + 4)

\* variant: each row is walked to the end of the parent's row (i1 = Stride)
NHSVA_Opaque_WholeRows(a, q) ==
    IF Empty(q.Rect) THEN Ret(TRUE, TRUE)
    ELSE NHSVA_OpaqueLoop(a, q, q.Rect.Min.Y, 3, q.Stride, 3)

NHSVA_Opaque(a, q) ==
    IF Empty(q.Rect) THEN Ret(TRUE, TRUE)
    ELSE NHSVA_OpaqueLoop(a, q, q.Rect.Min.Y, 3, Dx(q.Rect) * 4, 3)

NewNHSVA(r) ==
    LET w == Dx(r)
        h == Dy(r)
    IN [arr |-> MakeArr(4 * w * h, 0),
        img |-> Image([off |-> 0, len |-> 4 * w * h], 4 * w, r)]

-----------------------------------------------------------------------------
(* image.go: the NHSVA64 buffer (16-bit channels, big-endian, 8 bytes a pixel) *)

\* variant: NHSVA64.PixOffset with four storage elements a pixel
NHSVA64_PixOffset_FourAPixel(q, x, y) ==
    (y - q.Rect.Min.Y) * q.Stride + (x - q.Rect.Min.X) * 4

NHSVA64_PixOffset(q, x, y) ==
    (y - q.Rect.Min.Y) * q.Stride + (x - q.Rect.Min.X) * 8

\* variant: the getter assembles each channel low byte first
NHSVA64At_LowByteFirst(a, q, x, y) ==
    IF ~In(Pt(x, y), q.Rect) THEN Ret(TRUE, NHSVA64(0, 0, 0, 0))
    ELSE
    LET i == NHSVA64_PixOffset(q, x, y)
    IN IF ~Slice3OK(q.Pix, i, i + 8) THEN Ret(FALSE, NoColor)
       ELSE Ret(TRUE, NHSVA64(Elem(a, q.Pix, i + 1) * 256 + Elem(a, q.Pix, i),
                              Elem(a, q.Pix, i + 3) * 256 + Elem(a, q.Pix, i + 2),
                              Elem(a, q.Pix, i + 5) * 256 + Elem(a, q.Pix, i + 4),
                              Elem(a, q.Pix, i + 7) * 256 + Elem(a, q.Pix, i + 6)))

NHSVA64At(a, q, x, y) ==
    IF ~In(Pt(x, y), q.Rect) THEN Ret(TRUE, NHSVA64(0, 0, 0, 0))
    ELSE
    LET i == NHSVA64_PixOffset(q, x, y)
    IN IF ~Slice3OK(q.Pix, i, i + 8) THEN Ret(FALSE, NoColor)
       ELSE Ret(TRUE, NHSVA64(Elem(a, q.Pix, i) * 256 + Elem(a, q.Pix, i + 1),
                              Elem(a, q.Pix, i + 2) * 256 + Elem(a, q.Pix, i + 3),
                              Elem(a, q.Pix, i + 4) * 256 + Elem(a, q.Pix, i + 5),
                              Elem(a, q.Pix, i + 6) * 256 + Elem(a, q.Pix, i + 7)))

NHSVA64_At(a, q, x, y) == NHSVA64At(a, q, x, y)

\* the eight bytes s[0..7] written for colour c
NHSVA64_Bytes(c) ==
    <<U8(c.H \div 256), U8(c.H), U8(c.S \div 256), U8(c.S),
      U8(c.V \div 256), U8(c.V), U8(c.A \div 256), U8(c.A)>>

\* variant: SetNHSVA64 without the test of the point against the rectangle
SetNHSVA64_Unchecked(a, q, x, y, c) ==
    LET i == NHSVA64_PixOffset(q, x, y)
    IN IF ~Slice3OK(q.Pix, i, i + 8) THEN Ret(FALSE, a)
       ELSE Ret(TRUE, Store(a, q.Pix, i, NHSVA64_Bytes(c)))

SetNHSVA64(a, q, x, y, c) ==
    IF ~In(Pt(x, y), q.Rect) THEN Ret(TRUE, a)
    ELSE
    LET i == NHSVA64_PixOffset(q, x, y)
    IN IF ~Slice3OK(q.Pix, i, i + 8) THEN Ret(FALSE, a)
       ELSE Ret(TRUE, Store(a, q.Pix, i, NHSVA64_Bytes(c)))

NHSVA64_Set(a, q, x, y, c) ==
    IF ~In(Pt(x, y), q.Rect) THEN Ret(TRUE, a)
    ELSE
    LET i == NHSVA64_PixOffset(q, x, y)
        c1 == nhsva64Model(c)
    IN IF ~Slice3OK(q.Pix, i, i + 8) THEN Ret(FALSE, a)
       ELSE Ret(TRUE, Store(a, q.Pix, i, NHSVA64_Bytes(c1)))

\* variant: the sub-image without the test for an empty intersection
NHSVA64_SubImage_NoEmptyTest(q, r0) ==
    LET r == Intersect(r0, q.Rect)
        i == NHSVA64_PixOffset(q, r.Min.X, r.Min.Y)
    IN IF ~SliceFromOK(q.Pix, i) THEN Ret(FALSE, ZeroImage)
       ELSE Ret(TRUE, Image(SliceFrom(q.Pix, i), q.Stride, r))

NHSVA64_SubImage(q, r0) ==
    LET r == Intersect(r0, q.Rect)
    IN IF Empty(r) THEN Ret(TRUE, ZeroImage)
       ELSE
       LET i == NHSVA64_PixOffset(q, r.Min.X, r.Min.Y)
       IN IF ~SliceFromOK(q.Pix, i) THEN Ret(FALSE, ZeroImage)
          ELSE Ret(TRUE, Image(SliceFrom(q.Pix, i), q.Stride, r))

RECURSIVE NHSVA64_OpaqueLoop(_, _, _, _, _, _)
NHSVA64_OpaqueLoop(a, q, y, i0, i1, i) ==
    IF y >= q.Rect.Max.Y THEN Ret(TRUE, TRUE)
    ELSE IF i >= i1
         THEN NHSVA64_OpaqueLoop(a, q, y + 1, i0 + q.Stride, i1 + q.Stride, i0 + q.Stride)
    ELSE IF ~IndexOK(q.Pix, i) THEN Ret(FALSE, FALSE)
    ELSE IF Elem(a, q.Pix, i) # 255 THEN Ret(TRUE, FALSE)
    ELSE IF ~IndexOK(q.Pix, i + 1) THEN Ret(FALSE, FALSE)
    ELSE IF Elem(a, q.Pix, i + 1) # 255 THEN Ret(TRUE, FALSE)
    ELSE NHSVA64_OpaqueLoop(a, q, y, i0, i1, i + 8)

NHSVA64_Opaque(a, q) ==
    IF Empty(q.Rect) THEN Ret(TRUE, TRUE)
    ELSE NHSVA64_OpaqueLoop(a, q, q.Rect.Min.Y, 6, Dx(q.Rect) * 8, 6)

\* variant: the 16-bit buffer allocated with 4 bytes a pixel
NewNHSVA64_FourBytes(r) ==
    LET w == Dx(r)
        h == Dy(r)
    IN [arr |-> MakeArr(4 * w * h, 0),
        img |-> Image([off |-> 0, len |-> 4 * w * h], 8 * w, r)]

NewNHSVA64(r) ==
    LET w == Dx(r)
        h == Dy(r)
    IN [arr |-> MakeArr(8 * w * h, 0),
        img |-> Image([off |-> 0, len |-> 8 * w * h], 8 * w, r)]

-----------------------------------------------------------------------------
(* image.go: the NHSVAF64 buffer (float64 channels, 4 words a pixel) *)

\* variant: NHSVAF64.PixOffset with the row and the column exchanged
NHSVAF64_PixOffset_Transposed(q, x, y) ==
    (x - q.Rect.Min.X) * q.Stride + (y - q.Rect.Min.Y) * 4

NHSVAF64_PixOffset(q, x, y) ==
    (y - q.Rect.Min.Y) * q.Stride + (x - q.Rect.Min.X) * 4

\* variant: the getter without its bounds check
NHSVAF64At_Unchecked(a, q, x, y) ==
    LET i == NHSVAF64_PixOffset(q, x, y)
    IN IF ~Slice3OK(q.Pix, i, i + 4) THEN Ret(FALSE, NoColor)
       ELSE Ret(TRUE, NHSVAF64(Elem(a, q.Pix, i), Elem(a, q.Pix, i + 1),
                               Elem(a, q.Pix, i + 2), Elem(a, q.Pix, i + 3)))

NHSVAF64At(a, q, x, y) ==
    IF ~In(Pt(x, y), q.Rect) THEN Ret(TRUE, NHSVAF64(F0, F0, F0, F0))
    ELSE
    LET i == NHSVAF64_PixOffset(q, x, y)
    IN IF ~Slice3OK(q.Pix, i, i + 4) THEN Ret(FALSE, NoColor)
       ELSE Ret(TRUE, NHSVAF64(Elem(a, q.Pix, i), Elem(a, q.Pix, i + 1),
                               Elem(a, q.Pix, i + 2), Elem(a, q.Pix, i + 3)))

NHSVAF64_At(a, q, x, y) == NHSVAF64At(a, q, x, y)

SetNHSVAF64(a, q, x, y, c) ==
    IF ~In(Pt(x, y), q.Rect) THEN Ret(TRUE, a)
    ELSE
    LET i == NHSVAF64_PixOffset(q, x, y)
    IN IF ~Slice3OK(q.Pix, i, i + 4) THEN Ret(FALSE, a)
       ELSE Ret(TRUE, Store(a, q.Pix, i, <<c.H, c.S, c.V, c.A>>))

\* variant: the generic setter stores saturation and value in each other's place
NHSVAF64_Set_SwapSV(a, q, x, y, c) ==
    IF ~In(Pt(x, y), q.Rect) THEN Ret(TRUE, a)
    ELSE
    LET i == NHSVAF64_PixOffset(q, x, y)
        c1 == nhsvaF64Model(c)
    IN IF ~Slice3OK(q.Pix, i, i + 4) THEN Ret(FALSE, a)
       ELSE Ret(TRUE, Store(a, q.Pix, i, <<c1.H, c1.V, c1.S, c1.A>>))

NHSVAF64_Set(a, q, x, y, c) ==
    IF ~In(Pt(x, y), q.Rect) THEN Ret(TRUE, a)
    ELSE
    LET i == NHSVAF64_PixOffset(q, x, y)
        c1 == nhsvaF64Model(c)
    IN IF ~Slice3OK(q.Pix, i, i + 4) THEN Ret(FALSE, a)
       ELSE Ret(TRUE, Store(a, q.Pix, i, Channels(c1)))

\* variant: the sub-image takes the requested rectangle, not the intersection
NHSVAF64_SubImage_Unclipped(q, r0) ==
    LET r == Intersect(r0, q.Rect)
    IN IF Empty(r) THEN Ret(TRUE, ZeroImage)
       ELSE
       LET i == NHSVAF64_PixOffset(q, r.Min.X, r.Min.Y)
       IN IF ~SliceFromOK(q.Pix, i) THEN Ret(FALSE, ZeroImage)
          ELSE Ret(TRUE, Image(SliceFrom(q.Pix, i), q.Stride, r0))

NHSVAF64_SubImage(q, r0) ==
    LET r == Intersect(r0, q.Rect)
    IN IF Empty(r) THEN Ret(TRUE, ZeroImage)
       ELSE
       LET i == NHSVAF64_PixOffset(q, r.Min.X, r.Min.Y)
       IN IF ~SliceFromOK(q.Pix, i) THEN Ret(FALSE, ZeroImage)
          ELSE Ret(TRUE, Image(SliceFrom(q.Pix, i), q.Stride, r))

RECURSIVE NHSVAF64_OpaqueLoop(_, _, _, _, _, _)
NHSVAF64_OpaqueLoop(a, q, y, i0, i1, i) ==
    IF y >= q.Rect.Max.Y THEN Ret(TRUE, TRUE)
    ELSE IF i >= i1
         THEN NHSVAF64_OpaqueLoop(a, q, y + 1, i0 + q.Stride, i1 + q.Stride, i0 + q.Stride)
    ELSE IF ~IndexOK(q.Pix, i) THEN Ret(FALSE, FALSE)
    ELSE IF Elem(a, q.Pix, i) # F1 THEN Ret(TRUE, FALSE)
    ELSE NHSVAF64_OpaqueLoop(a, q, y, i0, i1, i + 4)

NHSVAF64_Opaque(a, q) ==
    IF Empty(q.Rect) THEN Ret(TRUE, TRUE)
    ELSE NHSVAF64_OpaqueLoop(a, q, q.Rect.Min.Y, 3, Dx(q.Rect) * 4, 3)

NewNHSVAF64(r) ==
    LET w == Dx(r)
        h == Dy(r)
    IN [arr |-> MakeArr(4 * w * h, F0),
        img |-> Image([off |-> 0, len |-> 4 * w * h], 4 * w, r)]

-----------------------------------------------------------------------------
(* Method dispatch on the buffer type *)

Kinds == {"NHSVA", "NHSVA64", "NHSVAF64"}

New(k, r) ==
    CASE k = "NHSVA" -> NewNHSVA(r)
      [] k = "NHSVA64" -> NewNHSVA64(r)
      [] k = "NHSVAF64" -> NewNHSVAF64(r)

BufTypedAt(k, a, q, x, y) ==
    CASE k = "NHSVA" -> NHSVAAt(a, q, x, y)
      [] k = "NHSVA64" -> NHSVA64At(a, q, x, y)
      [] k = "NHSVAF64" -> NHSVAF64At(a, q, x, y)

BufAt(k, a, q, x, y) ==
    CASE k = "NHSVA" -> NHSVA_At(a, q, x, y)
      [] k = "NHSVA64" -> NHSVA64_At(a, q, x, y)
      [] k = "NHSVAF64" -> NHSVAF64_At(a, q, x, y)

BufSetTyped(k, a, q, x, y, c) ==
    CASE k = "NHSVA" -> SetNHSVA(a, q, x, y, c)
      [] k = "NHSVA64" -> SetNHSVA64(a, q, x, y, c)
      [] k = "NHSVAF64" -> SetNHSVAF64(a, q, x, y, c)

BufSet(k, a, q, x, y, c) ==
    CASE k = "NHSVA" -> NHSVA_Set(a, q, x, y, c)
      [] k = "NHSVA64" -> NHSVA64_Set(a, q, x, y, c)
      [] k = "NHSVAF64" -> NHSVAF64_Set(a, q, x, y, c)

BufSubImage(k, q, r) ==
    CASE k = "NHSVA" -> NHSVA_SubImage(q, r)
      [] k = "NHSVA64" -> NHSVA64_SubImage(q, r)
      [] k = "NHSVAF64" -> NHSVAF64_SubImage(q, r)

BufOpaque(k, a, q) ==
    CASE k = "NHSVA" -> NHSVA_Opaque(a, q)
      [] k = "NHSVA64" -> NHSVA64_Opaque(a, q)
      [] k = "NHSVAF64" -> NHSVAF64_Opaque(a, q)

\* ColorModel().Convert(c) of the buffer type
ColorModel(k, c) ==
    CASE k = "NHSVA" -> nhsvaModel(c)
      [] k = "NHSVA64" -> nhsva64Model(c)
      [] k = "NHSVAF64" -> nhsvaF64Model(c)

-----------------------------------------------------------------------------
(* The inputs of the buffer program *)

\* rectangles handed to New*: origin (1,1), every width, height and area
\* within the bounds (empty rectangles included)
NewRects ==
    {Rect(1, 1, 1 + d[1], 1 + d[2]) :
        d \in {e \in (0 .. MaxW) \X (0 .. MaxH) : e[1] * e[2] <= MaxArea}}

\* coordinates handed to At and Set: those of the buffer p and one column and
\* row outside it on each side (Max is itself outside)
CoordsX == (p.Rect.Min.X - 1) .. p.Rect.Max.X

CoordsY == (p.Rect.Min.Y - 1) .. p.Rect.Max.Y

\* rectangles handed to SubImage: the non-empty ones over the coordinates,
\* and the zero-sized ones at the four corners
SubRects ==
    {Rect(c[1], c[2], c[3], c[4]) :
        c \in {e \in CoordsX \X CoordsY \X CoordsX \X CoordsY :
                    e[1] < e[3] /\ e[2] < e[4]}}
    \cup {Rect(x, y, x, y) : x \in {p.Rect.Min.X - 1, p.Rect.Max.X},
                             y \in {p.Rect.Min.Y - 1, p.Rect.Max.Y}}

\* dark blue, as a colour of the standard library: its conversion is exact in
\* the three precisions
DarkBlue == NRGBA(0, 0, 128, 255)

\* colours handed to the generic setter
GenericColors == {DarkBlue, ColorTransparent}

\* colours of the buffer's own type handed to the typed setter: opaque dark
\* blue and the zero colour
NativeColors(k) ==
    CASE k = "NHSVA" -> {NHSVA(170, 255, 128, 255), NHSVA(0, 0, 0, 0)}
      [] k = "NHSVA64" -> {NHSVA64(43690, 65535, 32896, 65535), NHSVA64(0, 0, 0, 0)}
      [] k = "NHSVAF64" -> {NHSVAF64(Frac(240, 1), F1, Frac(128, 255), F1),
                            NHSVAF64(F0, F0, F0, F0)}

Handles == {"p", "s"}

H(h) == IF h = "p" THEN p ELSE s

Call(op, h, in, inp, ret) == [op |-> op, h |-> h, in |-> in, inp |-> inp, ret |-> ret]

-----------------------------------------------------------------------------
(* The buffer program: New*, then any calls on the buffer and its sub-image *)

Init ==
    /\ kind \in Kinds
    /\ \E r \in NewRects :
          LET b == New(kind, r)
          IN /\ arr = b.arr
             /\ p = b.img
             /\ s = b.img
    /\ last = Call("New", "p", TRUE, TRUE, NoColor)
    /\ panicked = FALSE
    /\ cin = NoColor
    /\ cout = NoColor

\* a Set has returned res: the array it leaves, or a panic
Stored(res) ==
    /\ arr' = res.val
    /\ panicked' = ~res.ok

\* H(h).Set(x, y, c)
Set(h, x, y, c) ==
    /\ ~panicked
    /\ Stored(BufSet(kind, arr, H(h), x, y, c))
    /\ last' = Call("Set", h, In(Pt(x, y), H(h).Rect), In(Pt(x, y), p.Rect), NoColor)
    /\ UNCHANGED <<kind, p, s, cin, cout>>

\* H(h).SetNHSVA(x, y, c), SetNHSVA64, SetNHSVAF64
SetTyped(h, x, y, c) ==
    /\ ~panicked
    /\ LET res == BufSetTyped(kind, arr, H(h), x, y, c)
       IN /\ arr' = res.val
          /\ panicked' = ~res.ok
    /\ last' = Call("SetTyped", h, In(Pt(x, y), H(h).Rect), In(Pt(x, y), p.Rect), NoColor)
    /\ UNCHANGED <<kind, p, s, cin, cout>>

\* H(h).At(x, y)
At(h, x, y) ==
    /\ ~panicked
    /\ LET res == BufAt(kind, arr, H(h), x, y)
       IN /\ last' = Call("At", h, In(Pt(x, y), H(h).Rect), In(Pt(x, y), p.Rect), res.val)
          /\ panicked' = ~res.ok
    /\ UNCHANGED <<kind, arr, p, s, cin, cout>>

\* H(h).NHSVAAt(x, y), NHSVA64At, NHSVAF64At
TypedAt(h, x, y) ==
    /\ ~panicked
    /\ LET res == BufTypedAt(kind, arr, H(h), x, y)
       IN /\ last' = Call("TypedAt", h, In(Pt(x, y), H(h).Rect), In(Pt(x, y), p.Rect), res.val)
          /\ panicked' = ~res.ok
    /\ UNCHANGED <<kind, arr, p, s, cin, cout>>

\* s = H(h).SubImage(r)
SubImage(h, r) ==
    /\ ~panicked
    /\ LET res == BufSubImage(kind, H(h), r)
       IN /\ s' = res.val
          /\ panicked' = ~res.ok
    /\ last' = Call("SubImage", h, ~Empty(Intersect(r, H(h).Rect)),
                    ~Empty(Intersect(r, p.Rect)), NoColor)
    /\ UNCHANGED <<kind, arr, p, cin, cout>>

\* H(h).Opaque()
Opaque(h) ==
    /\ ~panicked
    /\ LET res == BufOpaque(kind, arr, H(h))
       IN /\ last' = Call("Opaque", h, ~Empty(H(h).Rect), ~Empty(p.Rect), res.val)
          /\ panicked' = ~res.ok
    /\ UNCHANGED <<kind, arr, p, s, cin, cout>>

Next ==
    \/ \E h \in Handles, x \in CoordsX, y \in CoordsY, c \in GenericColors : Set(h, x, y, c)
    \/ \E h \in Handles, x \in CoordsX, y \in CoordsY, c \in NativeColors(kind) : SetTyped(h, x, y, c)
    \/ \E h \in Handles, x \in CoordsX, y \in CoordsY : At(h, x, y)
    \/ \E h \in Handles, x \in CoordsX, y \in CoordsY : TypedAt(h, x, y)
    \/ \E h \in Handles, r \in SubRects : SubImage(h, r)
    \/ \E h \in Handles : Opaque(h)

Spec == Init /\ [][Next]_vars

-----------------------------------------------------------------------------
(* Vocabulary of the properties *)

\* (x, y) lies in the half-open rectangle r
InRect(x, y, r) == r.Min.X <= x /\ x < r.Max.X /\ r.Min.Y <= y /\ y < r.Max.Y

\* the common part of two rectangles, as corners
Meet(r, q) ==
    [Min |-> Pt(IF r.Min.X > q.Min.X THEN r.Min.X ELSE q.Min.X,
                IF r.Min.Y > q.Min.Y THEN r.Min.Y ELSE q.Min.Y),
     Max |-> Pt(IF r.Max.X < q.Max.X THEN r.Max.X ELSE q.Max.X,
                IF r.Max.Y < q.Max.Y THEN r.Max.Y ELSE q.Max.Y)]

NoArea(r) == r.Max.X <= r.Min.X \/ r.Max.Y <= r.Min.Y

\* the zero colour and the full alpha of each buffer type
Zero(k) ==
    CASE k = "NHSVA" -> NHSVA(0, 0, 0, 0)
      [] k = "NHSVA64" -> NHSVA64(0, 0, 0, 0)
      [] k = "NHSVAF64" -> NHSVAF64(F0, F0, F0, F0)

FullAlpha(k) ==
    CASE k = "NHSVA" -> 255
      [] k = "NHSVA64" -> 65535
      [] k = "NHSVAF64" -> F1

\* storage elements a pixel takes in each buffer type
PixelSize(k) == IF k = "NHSVA64" THEN 8 ELSE 4

\* coordinates the properties probe: beyond those the program passes, further
\* out on each side of the largest buffer and negative
ProbeX == (-1) .. (MaxW + 2)

ProbeY == (-1) .. (MaxH + 2)

\* rectangles the properties probe: all with corners from one column and row
\* before the buffers to one past the largest, the zero-sized ones included
ProbeRects ==
    {Rect(c[1], c[2], c[3], c[4]) :
        c \in {e \in (0 .. MaxW + 1) \X (0 .. MaxH + 1) \X (0 .. MaxW + 1) \X (0 .. MaxH + 1) :
                    e[1] <= e[3] /\ e[2] <= e[4]}}

\* colours of the buffer's own type the properties write: channels all
\* different, bytes of a channel different, alpha full, partial and zero
ProbeNative(k) ==
    CASE k = "NHSVA" ->
            {NHSVA(85, 64, 143, 255), NHSVA(205, 82, 143, 254), NHSVA(7, 9, 11, 0),
             NHSVA(0, 0, 0, 0)}
      [] k = "NHSVA64" ->
            {NHSVA64(4660, 22136, 39612, 65535), NHSVA64(52685, 21074, 36751, 65280),
             NHSVA64(1, 256, 65535, 255), NHSVA64(0, 0, 0, 0)}
      [] k = "NHSVAF64" ->
            {NHSVAF64(Frac(120, 1), Frac(1, 4), Frac(3, 4), F1),
             NHSVAF64(Frac(615, 2), Frac(1, 2), F1, Frac(1, 2)),
             NHSVAF64(Frac(-30, 1), Frac(3, 2), Frac(1, 3), F0),
             NHSVAF64(F0, F0, F0, F0)}

\* colours of other types the properties write through the generic setter
ProbeGeneric(k) ==
    {DarkBlue, ColorTransparent, Gray16(4660), NRGBA(0, 255, 0, 255)}
    \cup (IF k = "NHSVAF64" THEN {} ELSE {NRGBA(255, 255, 192, 128)})

\* the pixels of handle q, and whether all of them have full alpha in array a
Pixels(q) == {pt \in ProbeX \X ProbeY : InRect(pt[1], pt[2], q.Rect)}

AllFullAlpha(k, a, q) ==
    \A pt \in Pixels(q) :
        LET g == BufTypedAt(k, a, q, pt[1], pt[2])
        IN g.ok /\ g.val.A = FullAlpha(k)

Other(h) == IF h = "p" THEN "s" ELSE "p"

-----------------------------------------------------------------------------
(* Properties of the buffer program *)

\* C1: through the buffer p and a non-empty sub-image s, every coordinate
\* inside s's rectangle reads the same colour, whatever was written through
\* either; and a colour written through one handle there is read through the
\* other at the same coordinate.
C1_SubImageAliases ==
    /\ ~panicked
    /\ \A pt \in Pixels(s) :
          /\ BufTypedAt(kind, arr, s, pt[1], pt[2]).ok
          /\ BufTypedAt(kind, arr, s, pt[1], pt[2]) = BufTypedAt(kind, arr, p, pt[1], pt[2])
          /\ BufAt(kind, arr, s, pt[1], pt[2]) = BufAt(kind, arr, p, pt[1], pt[2])
          /\ \A h \in Handles :
                /\ \A c \in ProbeNative(kind) :
                      LET w == BufSetTyped(kind, arr, H(h), pt[1], pt[2], c)
                      IN w.ok /\ BufTypedAt(kind, w.val, H(Other(h)), pt[1], pt[2]) = Ret(TRUE, c)
                /\ \A c \in GenericColors :
                      LET w == BufSet(kind, arr, H(h), pt[1], pt[2], c)
                      IN w.ok /\ BufTypedAt(kind, w.val, H(Other(h)), pt[1], pt[2])
                                    = Ret(TRUE, ColorModel(kind, c))

\* a write through the sub-image, which starts inside the parent's storage and
\* is narrower than it, has left a non-zero pixel that the parent reads
C1_Witness ==
    /\ last.op \in {"Set", "SetTyped"} /\ last.h = "s" /\ last.in
    /\ s.Pix.off > 0 /\ Dx(s.Rect) < Dx(p.Rect) /\ Dy(s.Rect) > 1
    /\ \E pt \in Pixels(s) : BufTypedAt(kind, arr, p, pt[1], pt[2]).val # Zero(kind)

\* C2: the typed getter and At, called on any handle (sub-image and empty
\* buffer included) with a point outside its rectangle, return the zero
\* colour and do not fault.
C2_GetOutsideIsZero ==
    /\ ~panicked
    /\ \A h \in Handles, x \in ProbeX, y \in ProbeY :
          ~InRect(x, y, H(h).Rect) =>
              /\ BufTypedAt(kind, arr, H(h), x, y) = Ret(TRUE, Zero(kind))
              /\ BufAt(kind, arr, H(h), x, y) = Ret(TRUE, Zero(kind))
    /\ (last.op \in {"At", "TypedAt"} /\ ~last.in) => last.ret = Zero(kind)

\* At was called on a sub-image with a point of the parent outside the
\* sub-image, while the parent holds a non-zero pixel outside the sub-image
C2_Witness ==
    /\ last.op = "At" /\ last.h = "s" /\ ~last.in /\ last.inp
    /\ ~Empty(s.Rect)
    /\ \E pt \in Pixels(p) :
          /\ ~InRect(pt[1], pt[2], s.Rect)
          /\ BufTypedAt(kind, arr, p, pt[1], pt[2]).val # Zero(kind)

\* C3: Set and SetTyped with a point outside the handle's rectangle change
\* nothing: not a sample of the storage, not the stride or the rectangle of a
\* handle, and they do not fault; also when the point is inside the parent.
C3_SetOutsideIsNoOp ==
    [][(last'.op \in {"Set", "SetTyped"} /\ ~last'.in)
         => (arr' = arr /\ p' = p /\ s' = s /\ ~panicked')]_vars

\* a Set through a sub-image at a point of the parent outside the sub-image,
\* the parent holding a non-zero pixel outside the sub-image
C3_Witness ==
    /\ last.op = "Set" /\ last.h = "s" /\ ~last.in /\ last.inp
    /\ ~Empty(s.Rect)
    /\ \E pt \in Pixels(p) :
          /\ ~InRect(pt[1], pt[2], s.Rect)
          /\ BufTypedAt(kind, arr, p, pt[1], pt[2]).val # Zero(kind)

\* C4: when r meets the handle's rectangle, SubImage(r) returns a buffer whose
\* bounds are exactly the common part, whose stride is the handle's, and whose
\* storage starts at the handle's offset of the common part's Min corner; and
\* on bounds (0,0)-(10,10), SubImage((3,2)-(9,8)) has bounds (3,2)-(9,8).
C4_SubImageBounds ==
    /\ \A h \in Handles, r \in ProbeRects :
          LET q == H(h)
              m == Meet(r, q.Rect)
              i == (m.Min.Y - q.Rect.Min.Y) * q.Stride
                     + (m.Min.X - q.Rect.Min.X) * PixelSize(kind)
              res == BufSubImage(kind, q, r)
          IN ~NoArea(m) =>
                /\ res.ok
                /\ res.val.Rect = m
                /\ res.val.Stride = q.Stride
                /\ res.val.Pix = [off |-> q.Pix.off + i, len |-> q.Pix.len - i]
    /\ LET res == BufSubImage(kind, New(kind, Rect(0, 0, 10, 10)).img, Rect(3, 2, 9, 8))
       IN res.ok /\ res.val.Rect = Rect(3, 2, 9, 8)
    /\ (last.op = "SubImage" /\ last.in) =>
          (~panicked /\ ~Empty(s.Rect) /\ s.Stride = p.Stride)

\* a sub-image of a sub-image, strictly inside the parent
C4_Witness ==
    /\ last.op = "SubImage" /\ last.h = "s" /\ last.in
    /\ s.Pix.off > 0 /\ Dx(s.Rect) < Dx(p.Rect) /\ s.Rect.Min.Y > p.Rect.Min.Y

\* C5: when r does not meet the handle's rectangle (r zero-sized, outside,
\* touching at an edge or corner, or the handle itself empty), SubImage(r)
\* does not fault and returns a buffer with no storage and an empty rectangle.
C5_EmptySubImage ==
    /\ ~panicked
    /\ \A h \in Handles, r \in ProbeRects :
          NoArea(Meet(r, H(h).Rect)) =>
              BufSubImage(kind, H(h), r) = Ret(TRUE, Image(NilPix, 0, ZR))
    /\ (last.op = "SubImage" /\ ~last.in) => s = Image(NilPix, 0, ZR)

\* an empty sub-image taken from a non-empty handle by a rectangle that lies
\* outside it but meets the parent
C5_Witness ==
    /\ last.op = "SubImage" /\ last.h = "s" /\ ~last.in /\ last.inp
    /\ s.Pix.len = 0 /\ Empty(s.Rect)
    /\ ~Empty(p.Rect)
    /\ \E pt \in Pixels(p) : BufTypedAt(kind, arr, p, pt[1], pt[2]).val # Zero(kind)

\* C6: Opaque() does not fault and is true iff every pixel inside the handle's
\* own rectangle has full alpha (so an empty buffer is opaque), now and after
\* one more write anywhere in the parent; it depends on no pixel outside the
\* rectangle.
C6_OpaqueIffAllFullAlpha ==
    /\ ~panicked
    /\ \A h \in Handles :
          /\ BufOpaque(kind, arr, H(h)) = Ret(TRUE, AllFullAlpha(kind, arr, H(h)))
          /\ \A pt \in Pixels(p), c \in ProbeNative(kind) :
                LET w == BufSetTyped(kind, arr, p, pt[1], pt[2], c)
                IN BufOpaque(kind, w.val, H(h)) = Ret(TRUE, AllFullAlpha(kind, w.val, H(h)))
    /\ last.op = "Opaque" => last.ret = AllFullAlpha(kind, arr, H(last.h))
    /\ Empty(H(last.h).Rect) /\ last.op = "Opaque" => last.ret = TRUE

\* Opaque() answered true on a one-pixel sub-image of a parent that has a
\* pixel without full alpha
C6_Witness ==
    /\ last.op = "Opaque" /\ last.h = "s" /\ last.ret = TRUE
    /\ Dx(s.Rect) = 1 /\ Dy(s.Rect) = 1 /\ s.Pix.off > 0
    /\ ~AllFullAlpha(kind, arr, p)

\* C7: New*(rect) returns a buffer whose bounds are rect and whose pixels are
\* all the zero colour, which converts to the premultiplied RGBA (0,0,0,0);
\* a fresh non-empty buffer is not opaque.
C7_NewIsTransparent ==
    /\ \A r \in NewRects :
          LET b == New(kind, r)
          IN /\ b.img.Rect = r
             /\ \A pt \in Pixels(b.img) :
                   BufTypedAt(kind, b.arr, b.img, pt[1], pt[2]) = Ret(TRUE, Zero(kind))
             /\ ~Empty(r) => BufOpaque(kind, b.arr, b.img) = Ret(TRUE, FALSE)
    /\ RGBA(Zero(kind)) = <<0, 0, 0, 0>>
    /\ last.op = "New" =>
          /\ p.Rect \in NewRects
          /\ Cardinality(Pixels(p)) = Dx(p.Rect) * Dy(p.Rect)
          /\ \A pt \in Pixels(p) :
                /\ BufTypedAt(kind, arr, p, pt[1], pt[2]) = Ret(TRUE, Zero(kind))
                /\ RGBA(BufAt(kind, arr, p, pt[1], pt[2]).val) = <<0, 0, 0, 0>>
          /\ ~Empty(p.Rect) => BufOpaque(kind, arr, p) = Ret(TRUE, FALSE)

\* a fresh buffer of the largest area
C7_Witness ==
    /\ last.op = "New" /\ Dx(p.Rect) * Dy(p.Rect) = MaxArea
    /\ BufOpaque(kind, arr, p) = Ret(TRUE, FALSE)

\* C8: after SetTyped(x, y, c) inside the rectangle, the typed getter at
\* (x, y) returns exactly c; in the 16-bit buffer each channel is stored as
\* two bytes, high byte first.
C8_SetTypedThenGet ==
    /\ ~panicked
    /\ \A h \in Handles : \A pt \in Pixels(H(h)), c \in ProbeNative(kind) :
          LET q == H(h)
              w == BufSetTyped(kind, arr, q, pt[1], pt[2], c)
              i == q.Pix.off + (pt[2] - q.Rect.Min.Y) * q.Stride
                     + (pt[1] - q.Rect.Min.X) * PixelSize(kind)
          IN /\ w.ok
             /\ BufTypedAt(kind, w.val, q, pt[1], pt[2]) = Ret(TRUE, c)
             /\ kind = "NHSVA64" =>
                   /\ w.val[i] * 256 + w.val[i + 1] = c.H
                   /\ w.val[i + 2] * 256 + w.val[i + 3] = c.S
                   /\ w.val[i + 4] * 256 + w.val[i + 5] = c.V
                   /\ w.val[i + 6] * 256 + w.val[i + 7] = c.A
                   /\ \A j \in 0 .. 7 : w.val[i + j] \in 0 .. 255

\* SetTyped has written inside a 16-bit sub-image and the pixel is not zero
C8_Witness ==
    /\ last.op = "SetTyped" /\ last.in /\ last.h = "s" /\ kind = "NHSVA64"
    /\ s.Pix.off > 0
    /\ \E pt \in Pixels(s) : BufTypedAt(kind, arr, s, pt[1], pt[2]).val # Zero(kind)

\* C9: after the generic Set(x, y, c) inside the rectangle, the typed getter
\* at (x, y) returns the buffer's colour model applied to c; when c is of the
\* buffer's own colour type, exactly c.
C9_SetThenGet ==
    /\ ~panicked
    /\ \A h \in Handles : \A pt \in Pixels(H(h)),
          c \in ProbeGeneric(kind) \cup ProbeNative(kind) :
          LET w == BufSet(kind, arr, H(h), pt[1], pt[2], c)
              g == BufTypedAt(kind, w.val, H(h), pt[1], pt[2])
          IN /\ w.ok
             /\ g = Ret(TRUE, ColorModel(kind, c))
             /\ g.val.type = kind
             /\ c.type = kind => g.val = c

\* Set has written a colour of another type inside a sub-image: the pixel
\* holds its conversion
C9_Witness ==
    /\ last.op = "Set" /\ last.in /\ last.h = "s" /\ s.Pix.off > 0
    /\ \E pt \in Pixels(s) :
          BufTypedAt(kind, arr, s, pt[1], pt[2]).val = ColorModel(kind, DarkBlue)

-----------------------------------------------------------------------------
(* The colour models as a program of their own: a colour is drawn, then a
   model converts it.  The buffer variables stay at an empty buffer. *)

\* colorEquivalences and colorEquivalences64 of the tests: <<R, G, B>> with
\* its <<H, S, V>>, for black, white, red, green, blue, yellow, cyan, magenta,
\* dark blue and pale yellow
colorEquivalences ==
    << <<<<0, 0, 0>>, <<0, 0, 0>>>>,
       <<<<255, 255, 255>>, <<0, 0, 255>>>>,
       <<<<255, 0, 0>>, <<0, 255, 255>>>>,
       <<<<0, 255, 0>>, <<85, 255, 255>>>>,
       <<<<0, 0, 255>>, <<170, 255, 255>>>>,
       <<<<255, 255, 0>>, <<43, 255, 255>>>>,
       <<<<0, 255, 255>>, <<128, 255, 255>>>>,
       <<<<255, 0, 255>>, <<213, 255, 255>>>>,
       <<<<0, 0, 128>>, <<170, 255, 128>>>>,
       <<<<255, 255, 192>>, <<43, 63, 255>>>> >>

colorEquivalences64 ==
    << <<<<0, 0, 0>>, <<0, 0, 0>>>>,
       <<<<65535, 65535, 65535>>, <<0, 0, 65535>>>>,
       <<<<65535, 0, 0>>, <<0, 65535, 65535>>>>,
       <<<<0, 65535, 0>>, <<21845, 65535, 65535>>>>,
       <<<<0, 0, 65535>>, <<43690, 65535, 65535>>>>,
       <<<<65535, 65535, 0>>, <<10923, 65535, 65535>>>>,
       <<<<0, 65535, 65535>>, <<32768, 65535, 65535>>>>,
       <<<<65535, 0, 65535>>, <<54613, 65535, 65535>>>>,
       <<<<0, 0, 32768>>, <<43690, 65535, 32768>>>>,
       <<<<65535, 65535, 49344>>, <<10923, 16191, 65535>>>> >>

\* the colours TestNRGBToNHSV, TestNRGBAToNHSVA and their 64-bit versions
\* convert: each named colour under every 15th (3855th) alpha
NamedInputs ==
    {NRGBA(colorEquivalences[i][1][1], colorEquivalences[i][1][2],
           colorEquivalences[i][1][3], 15 * k) : i \in 1 .. 10, k \in 0 .. 17}
    \cup {NRGBA64(colorEquivalences64[i][1][1], colorEquivalences64[i][1][2],
                  colorEquivalences64[i][1][3], 3855 * k) : i \in 1 .. 10, k \in 0 .. 17}

\* colours with alpha 0 of every type, the other channels zero or not
TransparentInputs ==
    {NRGBA(r, g, 7, 0) : r, g \in {0, 255}}
    \cup {NRGBA64(r, 0, b, 0) : r, b \in {0, 65535}}
    \cup {RGBA64(0, 0, 0, 0), RGBA64(1, 2, 3, 0), Alpha16(0)}
    \cup {NHSVA(h, s0, v, 0) : h \in {0, 10}, s0 \in {0, 20}, v \in {0, 30}}
    \cup {NHSVA64(h, s0, v, 0) : h \in {0, 1000}, s0 \in {0, 2000}, v \in {0, 3000}}
    \cup {NHSVAF64(Frac(h, 1), Frac(s0, 2), Frac(v, 2), F0) : h \in {0, 120}, s0 \in {0, 1}, v \in {0, 1}}

\* HSV colours of each type that are not transparent: pure, gray and general
\* ones, the float64 ones also with channels out of range
NativeInputs ==
    {NHSVA(85, 255, 255, 255), NHSVA(205, 82, 143, 128), NHSVA(7, 0, 77, 200),
     NHSVA(0, 0, 255, 255)}
    \cup {NHSVA64(21845, 65535, 65535, 65535), NHSVA64(52685, 21074, 36751, 32768),
          NHSVA64(30000, 0, 3000, 1000), NHSVA64(0, 0, 65535, 65535)}
    \cup {NHSVAF64(Frac(120, 1), F1, F1, F1), NHSVAF64(Frac(725, 2), Frac(1, 2), Frac(1, 4), F1),
          NHSVAF64(Frac(-30, 1), Frac(3, 2), Frac(1, 3), Frac(1, 2))}

\* colours that are not gray, given non-premultiplied at both widths and
\* premultiplied, with low, middle and high channels under low, middle and
\* high alpha; RGBA() of each has r, g, b <= a
ChromaInputs ==
    {NRGBA(r, g, b, a) : r, g, b \in {0, 1, 77, 128, 200, 255}, a \in {1, 128, 255}}
    \cup {NRGBA64(r, g, b, a) : r, g, b \in {0, 1, 21845, 40000, 65535},
                                a \in {1, 255, 32768, 65534}}
    \cup UNION {{RGBA64(r, g, b, a) : r, g, b \in {0, 1, a \div 3, a - 1, a}} :
                    a \in {1, 3, 257, 40000, 65534}}
    \cup {NRGBA(255, 0, 5, 255), NRGBA(255, 5, 0, 255)}

\* the builds that differ on a colour: only the RGBA methods of the HSV
\* colours compute in float64
BuildsFor(c) ==
    IF c.type \in {"NHSVA", "NHSVA64", "NHSVAF64"} THEN FusedBuilds ELSE {{}}

\* every color.Gray and color.Gray16, gray colours with partial alpha given
\* non-premultiplied and premultiplied, and a few colours that are not gray or
\* have alpha 0
ConvInputs ==
    {Gray(v) : v \in 0 .. 255}
    \cup {Gray16(v) : v \in 0 .. 65535}
    \cup {NRGBA(v, v, v, a) : v \in {0, 1, 65, 128, 254, 255}, a \in {0, 1, 2, 64, 128, 254}}
    \cup UNION {{RGBA64(r, r, r, a) : r \in {0, 1, a \div 3, a - 1, a}} :
                    a \in {1, 257, 32768, 40000, 65534}}
    \cup {Alpha16(a) : a \in {0, 1, 32768, 65535}}
    \cup {DarkBlue, NRGBA(255, 0, 0, 255), NRGBA(0, 255, 0, 255), NRGBA(255, 255, 0, 255)}
    \cup TransparentInputs
    \cup NamedInputs
    \cup NativeInputs

\* the fractions of the float64 model are the program's floats when alpha is
\* 0 or full
Float64Exact(c) == RGBA(c)[4] \in {0, 65535}

InitConv ==
    /\ kind = "NHSVA"
    /\ arr = MakeArr(0, 0)
    /\ p = ZeroImage
    /\ s = ZeroImage
    /\ panicked = FALSE
    /\ last = Call("Draw", "p", FALSE, FALSE, NoColor)
    /\ \/ cin \in ConvInputs
       \/ cin \in ChromaInputs
    /\ cout = NoColor

\* a model has returned the colour res
Converts(op, res) ==
    /\ cout' = res
    /\ last' = Call(op, "p", FALSE, FALSE, NoColor)
    /\ UNCHANGED <<kind, arr, p, s, panicked, cin>>

ConvertNHSVA ==
    \E fused \in BuildsFor(cin) : Converts("nhsvaModel", nhsvaModelOn(cin, fused))

ConvertNHSVA64 ==
    \E fused \in BuildsFor(cin) : Converts("nhsva64Model", nhsva64ModelOn(cin, fused))

ConvertNHSVAF64 ==
    /\ Float64Exact(cin)
    /\ \E fused \in BuildsFor(cin) : Converts("nhsvaF64Model", nhsvaF64ModelOn(cin, fused))

NextConv ==
    \/ ConvertNHSVA
    \/ ConvertNHSVA64
    \/ ConvertNHSVAF64

SpecConv == InitConv /\ [][NextConv]_vars

\* the non-premultiplied 16-bit level of premultiplied x under alpha a, and
\* the 8-bit channel nearest to a 16-bit one
Unpremultiplied(x, a) == MulDiv(x, 65535, a)

Nearest8(n) == (2 * n + 257) \div 514

IsGrayInput(c) ==
    LET q == RGBA(c)
    IN /\ q[4] # 0
       /\ Unpremultiplied(q[1], q[4]) = Unpremultiplied(q[2], q[4])
       /\ Unpremultiplied(q[2], q[4]) = Unpremultiplied(q[3], q[4])

\* C10: a colour with non-zero alpha whose non-premultiplied R, G and B are
\* equal converts to hue 0, saturation 0, value the gray level and alpha the
\* colour's alpha, each at the model's precision; Gray{v} converts to
\* NHSVA{0,0,v,255} for all v in 0..255 and Gray16{v} to NHSVA64{0,0,v,65535}
\* for all v in 0..65535.
C10_GrayConversion ==
    LET q == RGBA(cin)
        level == Unpremultiplied(q[1], q[4])
    IN /\ (last.op = "nhsva64Model" /\ IsGrayInput(cin)) =>
              cout = NHSVA64(0, 0, level, q[4])
       /\ (last.op = "nhsvaModel" /\ IsGrayInput(cin)) =>
              cout = NHSVA(0, 0, Nearest8(level), Nearest8(q[4]))
       /\ (last.op = "nhsvaF64Model" /\ IsGrayInput(cin)) =>
              cout = NHSVAF64(F0, F0, Frac(level, 65535), F1)
       /\ (last.op = "nhsvaModel" /\ cin.type = "Gray") =>
              cout = NHSVA(0, 0, cin.Y, 255)
       /\ (last.op = "nhsva64Model" /\ cin.type = "Gray16") =>
              cout = NHSVA64(0, 0, cin.Y, 65535)
       /\ (last.op = "nhsvaModel" /\ cin.type = "NRGBA" /\ IsGrayInput(cin)) =>
              cout.A = cin.A

\* the type a model converts to, and whether a colour is fully transparent
\* (on every build)
ModelType(op) ==
    CASE op = "nhsvaModel" -> "NHSVA"
      [] op = "nhsva64Model" -> "NHSVA64"
      [] op = "nhsvaF64Model" -> "NHSVAF64"

IsModel(op) == op \in {"nhsvaModel", "nhsva64Model", "nhsvaF64Model"}

HasAlphaZero(c) == \A fused \in FusedBuilds : RGBAOn(c, fused).ok /\ RGBAOn(c, fused).val[4] = 0

\* C12: every colour with alpha 0 converts, by each of the three models, to
\* H = S = V = A = 0, whatever its type and other channels, an HSV colour of
\* the same or another precision with non-zero H, S or V included.
C12_TransparentIsZero ==
    (IsModel(last.op) /\ HasAlphaZero(cin)) => cout = Zero(ModelType(last.op))

near16(a, b) == (IF a < b THEN b - a ELSE a - b) < 18

\* C14: for each of the ten named colours given as color.NRGBA with alpha a
\* in {15, 30, ..., 255}, NHSVAModel yields exactly the H, S, V of the opaque
\* colour and A = a; at 16 bits (color.NRGBA64, a in {3855, 7710, ..., 65535})
\* A = a exactly and H, S, V are each within 17 units of the tabulated value.
C14_TransparencyPreserved ==
    /\ (last.op = "nhsvaModel" /\ cin.type = "NRGBA" /\ cin.A > 0 /\ cin.A % 15 = 0) =>
          \A i \in 1 .. 10 :
              <<cin.R, cin.G, cin.B>> = colorEquivalences[i][1] =>
                  /\ <<cout.H, cout.S, cout.V>> = colorEquivalences[i][2]
                  /\ cout.A = cin.A
                  /\ cout = [nhsvaModel(NRGBA(cin.R, cin.G, cin.B, 255)) EXCEPT !.A = cin.A]
    /\ (last.op = "nhsva64Model" /\ cin.type = "NRGBA64" /\ cin.A > 0 /\ cin.A % 3855 = 0) =>
          \A i \in 1 .. 10 :
              <<cin.R, cin.G, cin.B>> = colorEquivalences64[i][1] =>
                  /\ cout.A = cin.A
                  /\ cout.type = "NHSVA64"
                  /\ near16(cout.H, colorEquivalences64[i][2][1])
                  /\ near16(cout.S, colorEquivalences64[i][2][2])
                  /\ near16(cout.V, colorEquivalences64[i][2][3])

\* the 16-bit model has converted pale yellow under alpha 3855: the
\* saturation is 10 units off the tabulated 16191
C14_Witness ==
    /\ last.op = "nhsva64Model" /\ cin = NRGBA64(65535, 65535, 49344, 3855)
    /\ cout = NHSVA64(10923, 16201, 65535, 3855)

\* a model by its name
ModelOn(op, c, fused) ==
    CASE op = "nhsvaModel" -> nhsvaModelOn(c, fused)
      [] op = "nhsva64Model" -> nhsva64ModelOn(c, fused)
      [] op = "nhsvaF64Model" -> nhsvaF64ModelOn(c, fused)

\* C16: each model returns its input unchanged when the input is already of
\* the model's target type, whatever its channels; hence converting is
\* idempotent: the model applied to its own result returns that result.
C16_IdentityAndIdempotence ==
    IsModel(last.op) =>
        /\ cin.type = ModelType(last.op) => cout = cin
        /\ cout.type = ModelType(last.op)
        /\ \A fused \in FusedBuilds : ModelOn(last.op, cout, fused) = cout

\* the 8-bit model has been given a gray NHSVA of partial alpha whose hue its
\* own conversion of the colour's RGBA would not reproduce
C16_Witness ==
    /\ last.op = "nhsvaModel" /\ cin = NHSVA(7, 0, 77, 200) /\ cout = cin
    /\ nhsvaScaleDown(nhsva64FromRGBA(RGBA(cin))) # cin

-----------------------------------------------------------------------------
(* The RGBA methods of the HSV colours as a program of their own: an HSV
   colour is drawn, then its RGBA method converts it to alpha-premultiplied
   16-bit channels.  The buffer variables stay at an empty buffer. *)

\* gray (S = 0) colours: every value under every alpha at 8 bits; every value
\* at full alpha and a few values under a few alphas at 16 bits
GrayInputs8 == {NHSVA(h, 0, v, a) : h \in {0, 170}, v \in 0 .. 255, a \in 0 .. 255}

GrayInputs16 ==
    {NHSVA64(21845, 0, v, 65535) : v \in 0 .. 65535}
    \cup {NHSVA64(h, 0, v, a) : h \in {0, 65535}, v \in {0, 1, 255, 32768, 65535},
                                a \in {0, 1, 257, 32768, 65534}}

\* hsvColors of TestSimpleColors and TestSimpleColors64
hsvColors ==
    {NHSVA(0, 0, 0, 255), NHSVA(0, 0, 255, 255), NHSVA(0, 255, 255, 255),
     NHSVA(85, 255, 255, 255), NHSVA(170, 255, 255, 255), NHSVA(43, 255, 255, 255),
     NHSVA(0, 255, 255, 128), NHSVA(85, 64, 255, 255), NHSVA(170, 255, 64, 255),
     NHSVA(205, 82, 143, 255)}

hsvColors64 ==
    {NHSVA64(0, 0, 0, 65535), NHSVA64(0, 0, 65535, 65535), NHSVA64(0, 65535, 65535, 65535),
     NHSVA64(21845, 65535, 65535, 65535), NHSVA64(43690, 65535, 65535, 65535),
     NHSVA64(10923, 65535, 65535, 65535), NHSVA64(0, 65535, 65535, 32768),
     NHSVA64(21845, 16384, 65535, 65535), NHSVA64(43690, 65535, 32768, 65535),
     NHSVA64(52685, 21074, 36751, 65535)}

\* chromatic (S > 0) colours under every alpha at 8 bits; at 16 bits under
\* every 257th and every 251st alpha and the ones next to 0, to the middle and
\* to the full alpha
AlphaInputs ==
    LET Alphas16 == {257 * k : k \in 0 .. 255} \cup {251 * k : k \in 0 .. 261}
                    \cup {1, 2, 3, 255, 256, 32767, 32768, 65534}
    IN {NHSVA(205, 82, 143, a) : a \in 0 .. 255}
       \cup {NHSVA(85, 255, 255, a) : a \in 0 .. 255}
       \cup {NHSVA64(52685, 21074, 36751, a) : a \in Alphas16}

\* chromatic colours of every hue at 8 bits, saturated and not; at 16 bits of
\* every 257th and every 251st hue and the hues next to the six sector ends
HueInputs ==
    LET Hues16 == {257 * k : k \in 0 .. 255} \cup {251 * k : k \in 0 .. 261}
                  \cup {10922 * k + d : k \in 0 .. 5, d \in 0 .. 3} \cup {65534, 65535}
    IN {NHSVA(h, 255, 255, 255) : h \in 0 .. 255}
       \cup {NHSVA(h, 82, 143, 128) : h \in 0 .. 255}
       \cup {NHSVA64(h, 65535, 65535, 65535) : h \in Hues16}
       \cup {NHSVA64(h, 21074, 36751, 32768) : h \in {10922 * k + d : k \in 0 .. 6, d \in 0 .. 3}
                                                   \cap 0 .. 65535}

\* chromatic colours of low, middle and full saturation, value and alpha,
\* and of alpha 0
ChannelInputs ==
    {NHSVA(h, s0, v, a) : h \in {0, 43, 128, 255}, s0 \in {1, 64, 128, 255},
                          v \in {0, 1, 128, 255}, a \in {0, 1, 128, 255}}
    \cup {NHSVA64(h, s0, v, a) : h \in {0, 10923, 65535}, s0 \in {1, 32768, 65535},
                                v \in {0, 1, 32768, 65535}, a \in {0, 1, 32768, 65535}}

\* float64 colours: hues in and out of [0, 360) that are quotients of small
\* integers, with saturation, value and alpha below, in and above [0, 1]; and
\* a saturated colour of the hue 168 + 2^-44
F64Inputs ==
    {NHSVAF64(Frac(h, 4), Frac(s0, 2), Frac(v, 4), Frac(a, 2)) :
        h \in {0, 120, 239, 480, 1440, 1560, 1679, 2880, 3000, -120, -1201, -1440, -2761},
        s0 \in {-1, 0, 1, 2, 3}, v \in {-1, 1, 4, 8}, a \in {-2, 1, 2, 6}}
    \cup {NHSVAF64(F64Add(F64FromInt(168), F64Ldexp(1, -44)), F1, F1, F1)}

\* the colours drawn besides the gray ones above
RGBAInputs == hsvColors \cup hsvColors64 \cup AlphaInputs \cup HueInputs \cup ChannelInputs

InitRGBA ==
    /\ kind = "NHSVA"
    /\ arr = MakeArr(0, 0)
    /\ p = ZeroImage
    /\ s = ZeroImage
    /\ panicked = FALSE
    /\ last = Call("Draw", "p", FALSE, FALSE, NoColor)
    /\ \/ cin \in GrayInputs8
       \/ cin \in GrayInputs16
       \/ cin \in RGBAInputs
       \/ cin \in F64Inputs
    /\ cout = NoColor

\* the call c.RGBA() on the colour drawn has the outcome res; a panic leaves
\* no result
Returned(res) ==
    /\ last.op = "Draw"
    /\ cout' = IF res.ok THEN res.val ELSE NoColor
    /\ panicked' = ~res.ok
    /\ last' = Call("RGBA", "p", FALSE, FALSE, NoColor)
    /\ UNCHANGED <<kind, arr, p, s, cin>>

\* the call on a build that fuses the sums in fused
CallRGBA(fused) == Returned(RGBAOn(cin, fused))

RGBA_NHSVA == cin.type = "NHSVA" /\ \E fused \in FusedBuilds : CallRGBA(fused)

RGBA_NHSVA64 == cin.type = "NHSVA64" /\ \E fused \in FusedBuilds : CallRGBA(fused)

RGBA_NHSVAF64 == cin.type = "NHSVAF64" /\ \E fused \in FusedBuilds : CallRGBA(fused)

NextRGBA ==
    \/ RGBA_NHSVA
    \/ RGBA_NHSVA64
    \/ RGBA_NHSVAF64

SpecRGBA == InitRGBA /\ [][NextRGBA]_vars

\* a channel of an integer HSV colour widened to 16 bits, and the colour with
\* another hue
Widened(c, x) == IF c.type = "NHSVA" THEN 257 * x ELSE x

WithHue(c, h) == [c EXCEPT !.H = h]

HueProbes(c) == IF c.type = "NHSVA" THEN {0, 1, 128, 255} ELSE {0, 1, 32768, 65535}

\* C11: for an integer HSV colour with S = 0, RGBA() returns
\* r = g = b = (V16*A16 + 32768) / 65535 and a = A16 (the channels widened to
\* 16 bits), whatever H is; at full alpha the gray level is reproduced exactly
\* (the high byte is v at 8 bits, r = g = b = v at 16 bits), and at 8 bits for
\* every alpha a > 0 and every v, (255*r + a16/2) / a16 is v and a16 >> 8 is a.
C11_GrayRGBA ==
    (last.op = "RGBA" /\ cin.type \in {"NHSVA", "NHSVA64"} /\ cin.S = 0) =>
        LET V16 == Widened(cin, cin.V)
            A16 == Widened(cin, cin.A)
            r == cout[1]
            a16 == cout[4]
        IN /\ cout = <<r, r, r, A16>>
           /\ r = MulAddDiv(V16, A16, 32768, 65535)
           /\ \A h \in HueProbes(cin) : RGBA(WithHue(cin, h)) = cout
           /\ (cin.type = "NHSVA" /\ cin.A = 255) => r \div 256 = cin.V
           /\ (cin.type = "NHSVA64" /\ cin.A = 65535) => r = cin.V
           /\ (cin.type = "NHSVA" /\ cin.A > 0) =>
                  /\ (255 * r + a16 \div 2) \div a16 = cin.V
                  /\ a16 \div 256 = cin.A

\* RGBA has converted an 8-bit gray of partial alpha whose premultiplied
\* level is rounded up, and it un-premultiplies to the value
C11_Witness ==
    /\ last.op = "RGBA" /\ cin = NHSVA(170, 0, 100, 1)
    /\ cout = <<101, 101, 101, 257>>
    /\ (255 * cout[1] + cout[4] \div 2) \div cout[4] = 100

\* the high bytes of 16-bit channels
HighBytes(rgba) == <<rgba[1] \div 256, rgba[2] \div 256, rgba[3] \div 256, rgba[4] \div 256>>

\* C15: RGBA() gives the tabulated premultiplied colours: at 8 bits, in the
\* high byte of each channel, NHSVA (0,255,255,255) -> (255,0,0,255),
\* (85,255,255,255) -> (0,255,0,255), (170,255,255,255) -> (0,0,255,255),
\* (43,255,255,255) -> (252,255,0,255), (0,255,255,128) -> (128,0,0,128),
\* (85,64,255,255) -> (191,255,191,255), (170,255,64,255) -> (0,0,64,255),
\* (205,82,143,255) -> (135,97,143,255); at 16 bits NHSVA64
\* (21845,65535,65535,65535) -> (0,65535,0,65535), (10923,65535,65535,65535)
\* -> (65532,65535,0,65535), (0,65535,65535,32768) -> (32768,0,0,32768),
\* (21845,16384,65535,65535) -> (49151,65535,49151,65535),
\* (52685,21074,36751,65535) -> (34665,24933,36751,65535).
C15_TabulatedRGBA ==
    last.op = "RGBA" =>
      /\ cin = NHSVA(0, 255, 255, 255) => HighBytes(cout) = <<255, 0, 0, 255>>
      /\ cin = NHSVA(85, 255, 255, 255) => HighBytes(cout) = <<0, 255, 0, 255>>
      /\ cin = NHSVA(170, 255, 255, 255) => HighBytes(cout) = <<0, 0, 255, 255>>
      /\ cin = NHSVA(43, 255, 255, 255) => HighBytes(cout) = <<252, 255, 0, 255>>
      /\ cin = NHSVA(0, 255, 255, 128) => HighBytes(cout) = <<128, 0, 0, 128>>
      /\ cin = NHSVA(85, 64, 255, 255) => HighBytes(cout) = <<191, 255, 191, 255>>
      /\ cin = NHSVA(170, 255, 64, 255) => HighBytes(cout) = <<0, 0, 64, 255>>
      /\ cin = NHSVA(205, 82, 143, 255) => HighBytes(cout) = <<135, 97, 143, 255>>
      /\ cin = NHSVA64(21845, 65535, 65535, 65535) => cout = <<0, 65535, 0, 65535>>
      /\ cin = NHSVA64(10923, 65535, 65535, 65535) => cout = <<65532, 65535, 0, 65535>>
      /\ cin = NHSVA64(0, 65535, 65535, 32768) => cout = <<32768, 0, 0, 32768>>
      /\ cin = NHSVA64(21845, 16384, 65535, 65535) => cout = <<49151, 65535, 49151, 65535>>
      /\ cin = NHSVA64(52685, 21074, 36751, 65535) => cout = <<34665, 24933, 36751, 65535>>

\* RGBA has converted the 8-bit French lilac, which is neither gray nor pure
C15_Witness ==
    /\ last.op = "RGBA" /\ cin = NHSVA(205, 82, 143, 255)
    /\ cout = <<34665, 24933, 36751, 65535>>

\* C17: RGBA() keeps alpha exactly, on the gray (S = 0) and on the chromatic
\* (S > 0) path: an NHSVA colour gives a = 257 * A, whose high byte is A, and
\* an NHSVA64 colour gives a = A.
C17_AlphaPreserved ==
    (last.op = "RGBA" /\ cin.type \in {"NHSVA", "NHSVA64"}) =>
        /\ cin.type = "NHSVA" => (cout[4] = cin.A * 257 /\ cout[4] \div 256 = cin.A)
        /\ cin.type = "NHSVA64" => cout[4] = cin.A

\* RGBA has converted a chromatic NHSVA of partial alpha
C17_Witness ==
    /\ last.op = "RGBA" /\ cin = NHSVA(205, 82, 143, 77)
    /\ cout[4] = 19789 /\ cout[1] # cout[2]

\* the NHSVA64 colour of an NHSVA colour's channels scaled by 257
Scaled257(c) == NHSVA64(257 * c.H, 257 * c.S, 257 * c.V, 257 * c.A)

\* 16-bit channels less than 18 units apart
Near18(q1, q2) == \A i \in 1 .. 4 : Abs(q1[i] - q2[i]) < 18

\* C18: the 8-bit and the 16-bit RGBA() agree: for an NHSVA colour
\* (h, s, v, a), RGBA() is in every channel fewer than 18 units of the 16-bit
\* range away from the RGBA() of the NHSVA64 colour (257h, 257s, 257v, 257a),
\* and equal to it when S = 0.
C18_WidthsAgree ==
    (last.op = "RGBA" /\ cin.type = "NHSVA") =>
        \A fused \in FusedBuilds :
            LET q8 == RGBAOn(cin, fused)
                q16 == RGBAOn(Scaled257(cin), fused)
            IN /\ q8.ok /\ q16.ok
               /\ Near18(q8.val, q16.val)
               /\ cin.S = 0 => q8.val = q16.val

\* RGBA has converted a chromatic NHSVA of partial alpha, and the scaled
\* NHSVA64 colour converts to the same channels
C18_Witness ==
    /\ last.op = "RGBA" /\ cin = NHSVA(205, 82, 143, 128)
    /\ cout = RGBA(NHSVA64(52685, 21074, 36751, 32896))
    /\ cout[1] # cout[2]

\* a float64 channel forced into [0, 1], and a float64 colour with its
\* saturation, value and alpha forced into [0, 1]
Into01(x) ==
    LET f == F64Of(x)
    IN IF F64Lt(f, F64Zero) THEN F64Zero ELSE IF F64Lt(F64One, f) THEN F64One ELSE f

Clamped(c) == NHSVAF64(c.H, Into01(c.S), Into01(c.V), Into01(c.A))

\* the hues k turns away from a float64 hue that are float64 values: the sum
\* h + 360k when it is exact
Turned(h, k) ==
    LET f == F64Of(h)
        t == F64Add(f, F64FromInt(360 * k))
    IN IF F64Cmp(F64Sub(t, F64FromInt(360 * k)), f) = 0 THEN {t} ELSE {}

CongruentHues(h) == UNION {Turned(h, k) : k \in {-2, -1, 1, 2}}

\* C19: NHSVAF64.RGBA() tolerates channels out of range: the result depends on
\* H only modulo 360 (H, H + 360k and the negative hues congruent to H give
\* the same RGBA), S, V and A below 0 count as 0 and above 1 as 1, and no
\* panic of the hue-sector selection is reached.
C19_OutOfRangeTolerated ==
    (last.op = "RGBA" /\ cin.type = "NHSVAF64") =>
        /\ ~panicked
        /\ \A fused \in FusedBuilds :
               LET res == RGBAOn(cin, fused)
               IN /\ res.ok
                  /\ RGBAOn(Clamped(cin), fused) = res
                  /\ \A h \in CongruentHues(cin.H) : RGBAOn(WithHue(cin, h), fused) = res

\* hf / 60.0 of an integer HSV colour, as NHSVA.RGBA and NHSVA64.RGBA pass it
\* to the hue-sector selection
HueSixths(c) ==
    F64DivInt(F64DivInt(F64Mul(F64FromInt(c.H), F64Degrees),
                        IF c.type = "NHSVA" THEN 255 ELSE 65535), 60)

\* C20: for an NHSVA and for an NHSVA64 colour RGBA() reaches neither panic
\* of the hue-sector selection: the scaled hue hf / 60 lies in [0, 6], also at
\* the largest hue, 255 and 65535.
C20_NoSectorPanic ==
    (last.op = "RGBA" /\ cin.type \in {"NHSVA", "NHSVA64"}) =>
        /\ ~panicked
        /\ cout # NoColor
        /\ F64Le(F64Zero, HueSixths(cin))
        /\ F64Le(HueSixths(cin), F64Sectors[6])

\* RGBA has converted saturated colours of the largest hue, whose scaled hue
\* is 6.0, to red
C20_Witness ==
    /\ last.op = "RGBA" /\ cin \in {NHSVA(255, 255, 255, 255), NHSVA64(65535, 65535, 65535, 65535)}
    /\ F64Cmp(HueSixths(cin), F64Sectors[6]) = 0
    /\ cout = <<65535, 0, 0, 65535>>

\* the largest channel value of an integer HSV colour
ChannelMax(c) == IF c.type = "NHSVA" THEN 255 ELSE 65535

\* an integer HSV colour whose hue shows in its RGBA: no channel but the hue
\* is zero
HueShows(c) == c.type \in {"NHSVA", "NHSVA64"} /\ c.S > 0 /\ c.V > 0 /\ c.A > 0

StraightOf(q) ==
    <<Unpremultiplied(q[1], q[4]), Unpremultiplied(q[2], q[4]), Unpremultiplied(q[3], q[4])>>

Least(t) == CHOOSE m \in {t[1], t[2], t[3]} : \A x \in {t[1], t[2], t[3]} : m <= x

Greatest(t) == CHOOSE m \in {t[1], t[2], t[3]} : \A x \in {t[1], t[2], t[3]} : x <= m

\* 60 * (x - y) / delta for x >= y, and the hue in degrees of <<R, G, B>>
\* that is not gray: the sixth of the circle from the greatest channel (R
\* before G before B) and the two others, the quotient truncated toward zero,
\* then brought into 0 .. 359
SixtyTimes(x, y, delta) == (60 * (x - y)) \div delta

Sector(x, y, delta) == IF x >= y THEN SixtyTimes(x, y, delta) ELSE 0 - SixtyTimes(y, x, delta)

DegreesFrom(t, cMax, delta) ==
    IF cMax = t[1] THEN (Sector(t[2], t[3], delta) + 360) % 360
    ELSE IF cMax = t[2] THEN (Sector(t[3], t[1], delta) + 120 + 360) % 360
    ELSE (Sector(t[1], t[2], delta) + 240 + 360) % 360

DegreesOf(t) == DegreesFrom(t, Greatest(t), Greatest(t) - Least(t))

\* a premultiplied q with alpha whose non-premultiplied colour is not gray,
\* and the hue in degrees of any premultiplied q, 0 without a hue
IsChroma(q) == q[4] > 0 /\ Greatest(StraightOf(q)) > Least(StraightOf(q))

HueOf(q) == IF IsChroma(q) THEN DegreesOf(StraightOf(q)) ELSE 0

\* a model has computed the colour drawn from its RGBA(): the colour is not
\* of the model's type, nor an NHSVA64 that nhsvaModel only scales down
ComputedBy(op) ==
    /\ last.op = op
    /\ cin.type \notin (IF op = "nhsvaModel" THEN {"NHSVA", "NHSVA64"} ELSE {ModelType(op)})

Hue16(d) == (d * 65535 + 180) \div 360

Hue8(d) == (Hue16(d) * 255 + 32768) \div 65535

QuotientOf(prod, n, d) ==
    /\ BigCmp(BigMul(BigFromInt(n), BigFromInt(d)), prod) <= 0
    /\ BigCmp(prod, BigMul(BigFromInt(n + 1), BigFromInt(d))) < 0

IsQuotient(n, x, y, d) == QuotientOf(BigMul(BigFromInt(x), BigFromInt(y)), n, d)

\* a premultiplied q = <<r, g, b, a>> with r, g, b <= a and a > 0
Premultiplied(q) == q[4] > 0 /\ q[1] <= q[4] /\ q[2] <= q[4] /\ q[3] <= q[4]

\* c has the value, the saturation and the hue of the non-premultiplied t =
\* <<R, G, B>>
HSVOfStraight(t, c) ==
    /\ c.type = "NHSVA64"
    /\ c.V = Greatest(t)
    /\ IF Greatest(t) = 0 THEN c.S = 0
       ELSE IsQuotient(c.S, Greatest(t) - Least(t), 65535, Greatest(t))
    /\ Greatest(t) > Least(t) =>
           /\ DegreesOf(t) \in 0 .. 359
           /\ c.H = Hue16(DegreesOf(t))

\* c has the value, the saturation and the hue of the premultiplied q
HSVOfRGBA(q, c) ==
    Premultiplied(q) =>
        /\ \A i \in 1 .. 3 : IsQuotient(StraightOf(q)[i], q[i], 65535, q[4])
        /\ HSVOfStraight(StraightOf(q), c)

\* C23 as stated: for every input colour with premultiplied r, g, b <= a and
\* a > 0, NHSVA64Model gives V = cMax, S = 0 if cMax = 0 else
\* delta * 65535 / cMax and the hue of 60 * (G - B) / delta, 60 * (B - R) /
\* delta + 120 or 60 * (R - G) / delta + 240 degrees, brought into 0 .. 359,
\* of the non-premultiplied R, G, B, each c * 65535 / a truncated.
C23_HSVFromStraightRGB ==
    last.op = "nhsva64Model" =>
        \E fused \in BuildsFor(cin) : HSVOfRGBA(RGBAOn(cin, fused).val, cout)

\* C23, amended: the same for every such input colour that is not already an
\* NHSVA64.
C23_HSVFromStraightRGBUnlessNHSVA64 ==
    ComputedBy("nhsva64Model") =>
        \E fused \in BuildsFor(cin) : HSVOfRGBA(RGBAOn(cin, fused).val, cout)

\* the 16-bit model has converted a translucent colour whose greatest channel
\* is R and whose G is below B: a negative quotient, truncated toward zero
C23_Witness ==
    /\ last.op = "nhsva64Model" /\ cin = NRGBA(200, 1, 77, 128)
    /\ StraightOf(RGBA(cin)) = <<51398, 256, 19788>>
    /\ SixtyTimes(19788, 256, 51398 - 256) = 22
    /\ cout = NHSVA64(Hue16(338), 65208, 51398, 32896)

\* k is the 8-bit channel nearest to the 16-bit channel n: k / 255 is within
\* half an 8-bit step of n / 65535
IsNearest8(k, n) ==
    /\ k \in 0 .. 255
    /\ 2 * (k * 65535 - n * 255) <= 65535
    /\ 2 * (n * 255 - k * 65535) <= 65535

\* the 8-bit colour c is the 16-bit colour n with each channel rounded
Quantized(c, n) ==
    /\ c.type = "NHSVA" /\ n.type = "NHSVA64"
    /\ \A i \in 1 .. 4 :
           /\ IsNearest8(Channels(c)[i], Channels(n)[i])
           /\ Channels(c)[i] = (Channels(n)[i] * 255 + 32768) \div 65535

\* C24: for every colour c that is not already an NHSVA, each channel of
\* NHSVAModel.Convert(c) is the channel n of NHSVA64Model.Convert(c) rounded
\* to nearest as (n * 255 + 32768) / 65535; the rounding maps x * 257 back to
\* x for every x in 0 .. 255 (every color.Gray{x} has the 16-bit value
\* x * 257).
C24_FaithfulQuantization ==
    (last.op = "nhsvaModel" /\ cin.type # "NHSVA") =>
        /\ \E fused \in BuildsFor(cin) : Quantized(cout, nhsva64ModelOn(cin, fused))
        /\ cin.type = "Gray" =>
               /\ nhsva64Model(cin).V = cin.Y * 257
               /\ (cin.Y * 257 * 255 + 32768) \div 65535 = cin.Y
               /\ cout.V = cin.Y

\* the 8-bit model has converted an NHSVA64 whose alpha 32768 lies above the
\* middle of two 8-bit steps: it is rounded up to 128
C24_Witness ==
    /\ last.op = "nhsvaModel" /\ cin = NHSVA64(52685, 21074, 36751, 32768)
    /\ cout = NHSVA(205, 82, 143, 128)
    /\ (32768 * 255) \div 65535 = 127

\* the n storage elements of handle q from offset i of its Pix on, and the
\* colour of type k they hold (the 16-bit channels as big-endian byte pairs)
SamplesAt(a, q, i, n) == [j \in 1 .. n |-> a[q.Pix.off + i + j - 1]]

ColourOf(k, e) ==
    CASE k = "NHSVA" -> NHSVA(e[1], e[2], e[3], e[4])
      [] k = "NHSVA64" -> NHSVA64(e[1] * 256 + e[2], e[3] * 256 + e[4],
                                  e[5] * 256 + e[6], e[7] * 256 + e[8])
      [] k = "NHSVAF64" -> NHSVAF64(e[1], e[2], e[3], e[4])

\* the buffer p was created with n storage elements a pixel, and the pixel at
\* each point inside the rectangle of each handle is held at the offset
\* (y - Min.Y) * Stride + (x - Min.X) * n of the handle's Pix
LaidOut(n) ==
    /\ p.Stride = n * Dx(p.Rect)
    /\ p.Pix.len = n * Dx(p.Rect) * Dy(p.Rect)
    /\ DOMAIN arr = 0 .. (n * Dx(p.Rect) * Dy(p.Rect) - 1)
    /\ \A h \in Handles :
          \A pt \in Pixels(H(h)) :
              BufTypedAt(kind, arr, H(h), pt[1], pt[2])
                  = Ret(TRUE, ColourOf(kind,
                        SamplesAt(arr, H(h),
                                  (pt[2] - H(h).Rect.Min.Y) * H(h).Stride
                                      + (pt[1] - H(h).Rect.Min.X) * n,
                                  PixelSize(kind))))

\* C25 as stated: in all three precisions pixel (x, y) inside the rectangle
\* maps to the offset (y - minY) * stride + (x - minX) * 4, and a buffer
\* created for width w and height h has stride 4 * w and storage length
\* 4 * w * h.
C25_FourSamplesAPixel == ~panicked => LaidOut(4)

\* C25, amended: the same with 8 in place of 4 for NHSVA64, whose storage is
\* bytes, two to a channel: offset (y - minY) * stride + (x - minX) * 8,
\* stride 8 * w and storage length 8 * w * h.
C25_PixelSizeSamplesAPixel == ~panicked => LaidOut(PixelSize(kind))

\* an NHSVA64 buffer of two rows and two columns and its sub-image of the
\* last pixel, which is held 8 * 2 + 8 bytes into the storage and is not zero
C25_Witness ==
    /\ kind = "NHSVA64" /\ ~panicked
    /\ p.Rect = Rect(1, 1, 3, 3) /\ s.Rect = Rect(2, 2, 3, 3)
    /\ p.Stride = 16 /\ p.Pix.len = 32
    /\ s.Pix.off = 24 /\ s.Stride = 16
    /\ arr[24] # 0 /\ arr[0] = 0 /\ arr[12] = 0

\* C26: RGBA() of every NHSVA and NHSVA64 colour is a valid
\* alpha-premultiplied colour, r, g, b <= a <= 65535; a colour with A = 0,
\* whatever its H, S and V, gives (0,0,0,0), which the integer models convert
\* to the zero HSV colour.
C26_ValidPremultiplied ==
    (last.op = "RGBA" /\ cin.type \in {"NHSVA", "NHSVA64"}) =>
        /\ ~panicked
        /\ \A i \in 1 .. 3 : 0 <= cout[i] /\ cout[i] <= cout[4]
        /\ cout[4] <= 65535
        /\ cin.A = 0 =>
               /\ cout = <<0, 0, 0, 0>>
               /\ nhsvaModel(RGBA64(cout[1], cout[2], cout[3], cout[4])) = NHSVA(0, 0, 0, 0)
               /\ nhsva64Model(RGBA64(cout[1], cout[2], cout[3], cout[4])) = NHSVA64(0, 0, 0, 0)

\* RGBA has converted a saturated colour of alpha 0 whose hue, saturation and
\* value are not zero
C26_Witness ==
    /\ last.op = "RGBA" /\ cin = NHSVA(43, 128, 255, 0)
    /\ cout = <<0, 0, 0, 0>>

\* the places in the backing array of the pixel at pt of handle q
PixelElems(q, pt) ==
    {q.Pix.off + (pt[2] - q.Rect.Min.Y) * q.Stride
         + (pt[1] - q.Rect.Min.X) * PixelSize(kind) + j : j \in 0 .. (PixelSize(kind) - 1)}

\* the array w is arr but for the pixel at pt of handle q: every other
\* storage element, and every other pixel read through any handle, is as in
\* arr
OnlyPixel(w, q, pt) ==
    /\ DOMAIN w = DOMAIN arr
    /\ \A j \in DOMAIN arr \ PixelElems(q, pt) : w[j] = arr[j]
    /\ \A g \in Handles :
          \A other \in Pixels(H(g)) \ {pt} :
              BufTypedAt(kind, w, H(g), other[1], other[2])
                  = BufTypedAt(kind, arr, H(g), other[1], other[2])

\* a setter has returned res for the point pt of handle q
FramedWrite(res, q, pt) == res.ok /\ OnlyPixel(res.val, q, pt)

\* C27: an in-bounds Set or SetTyped at (x, y) changes only the storage of
\* pixel (x, y), 4 elements or 8 bytes in the 16-bit buffer: every other
\* pixel read through this or the aliasing handle, and the Rect, Stride and
\* Pix of both handles, stay; SubImage changes no storage and no field of the
\* parent.
C27_SetChangesOnePixel ==
    /\ [](~panicked /\
          \A h \in Handles :
              \A pt \in Pixels(H(h)) :
                  /\ \A c \in ProbeNative(kind) :
                         FramedWrite(BufSetTyped(kind, arr, H(h), pt[1], pt[2], c), H(h), pt)
                  /\ \A c \in ProbeGeneric(kind) :
                         FramedWrite(BufSet(kind, arr, H(h), pt[1], pt[2], c), H(h), pt))
    /\ [][(last'.op \in {"Set", "SetTyped"} /\ last'.in) =>
              /\ p' = p /\ s' = s
              /\ \E pt \in Pixels(H(last'.h)) : OnlyPixel(arr', H(last'.h), pt)]_vars
    /\ [][last'.op = "SubImage" => (arr' = arr /\ p' = p)]_vars

\* a Set through a sub-image of one pixel of a buffer of four has left that
\* pixel alone not zero
C27_Witness ==
    /\ last.op \in {"Set", "SetTyped"} /\ last.in /\ last.h = "s"
    /\ Cardinality(Pixels(p)) = 4 /\ Cardinality(Pixels(s)) = 1
    /\ \A pt \in Pixels(p) :
          (BufTypedAt(kind, arr, p, pt[1], pt[2]).val # Zero(kind)) <=> pt \in Pixels(s)

\* the pixels of the parent that the sub-image does not have
Beyond == Pixels(p) \ Pixels(s)

\* the parent's pixels outside the sub-image read the same in the arrays a, b
SameBeyond(a, b) ==
    \A pt \in Beyond :
        BufTypedAt(kind, a, p, pt[1], pt[2]) = BufTypedAt(kind, b, p, pt[1], pt[2])

\* C28: the storage of a sub-image runs to the end of the parent's, yet the
\* handle confines access to its rectangle: a Set or SetTyped through s, at
\* whatever point, leaves every pixel of the parent outside s's rectangle as
\* it was, and s reads every point outside its rectangle as the zero colour.
C28_SubImageConfined ==
    /\ [](/\ ~Empty(s.Rect) => s.Pix.off + s.Pix.len = p.Pix.off + p.Pix.len
          /\ \A pt \in (ProbeX \X ProbeY) \ Pixels(s) :
                /\ BufTypedAt(kind, arr, s, pt[1], pt[2]) = Ret(TRUE, Zero(kind))
                /\ BufAt(kind, arr, s, pt[1], pt[2]) = Ret(TRUE, Zero(kind)))
    /\ [][(last'.op \in {"Set", "SetTyped"} /\ last'.h = "s") =>
              (~panicked' /\ SameBeyond(arr', arr))]_vars

\* a Set through a proper sub-image whose storage goes past its last row into
\* a row of the parent holding a pixel the sub-image does not have, and that
\* pixel has been written
C28_Witness ==
    /\ last.op \in {"Set", "SetTyped"} /\ last.h = "s" /\ last.in
    /\ \E pt \in Beyond :
          /\ pt[2] >= s.Rect.Max.Y
          /\ BufTypedAt(kind, arr, p, pt[1], pt[2]).val # Zero(kind)
    /\ \E pt \in Pixels(s) : BufTypedAt(kind, arr, s, pt[1], pt[2]).val # Zero(kind)

\* PixOffset of each buffer type
BufPixOffset(k, q, x, y) ==
    CASE k = "NHSVA" -> NHSVA_PixOffset(q, x, y)
      [] k = "NHSVA64" -> NHSVA64_PixOffset(q, x, y)
      [] k = "NHSVAF64" -> NHSVAF64_PixOffset(q, x, y)

\* the pixel at offset i lies inside the slice pix of the backing array
PixelInside(pix, i) ==
    /\ 0 <= i /\ i + PixelSize(kind) <= pix.len
    /\ \A j \in (pix.off + i) .. (pix.off + i + PixelSize(kind) - 1) : j \in DOMAIN arr

\* C29: in a buffer made by New* and then by any chain of SubImage calls,
\* every point of the rectangle has 0 <= PixOffset(x, y) and PixOffset(x, y)
\* + pixelSize <= len(Pix), pixelSize being 4, or 8 for NHSVA64; At, the typed
\* getter, Set, the typed setter and Opaque never index out of range.
C29_OffsetsInRange ==
    /\ [](\A h \in Handles :
             /\ \A pt \in Pixels(H(h)) :
                   /\ PixelInside(H(h).Pix, BufPixOffset(kind, H(h), pt[1], pt[2]))
                   /\ BufAt(kind, arr, H(h), pt[1], pt[2]).ok
                   /\ BufTypedAt(kind, arr, H(h), pt[1], pt[2]).ok
                   /\ BufSet(kind, arr, H(h), pt[1], pt[2], DarkBlue).ok
                   /\ BufSetTyped(kind, arr, H(h), pt[1], pt[2], Zero(kind)).ok
             /\ BufOpaque(kind, arr, H(h)).ok)
    /\ [][~panicked']_vars

\* SubImage called through the sub-image handle: the result's storage starts
\* inside the buffer's second row, and its last pixel ends with its storage
C29_Witness ==
    /\ last.op = "SubImage" /\ last.h = "s" /\ last.in
    /\ s.Pix.off > p.Stride
    /\ s.Rect.Max = p.Rect.Max
    /\ \E pt \in Pixels(s) :
          BufPixOffset(kind, s, pt[1], pt[2]) + PixelSize(kind) = s.Pix.len

\* 2^32, and x * y + c < 2^32 in exact arithmetic
TwoTo32 == BigMul(BigFromInt(65536), BigFromInt(65536))

Fits32(x, y, c) ==
    BigCmp(BigAdd(BigMul(BigFromInt(x), BigFromInt(y)), BigFromInt(c)), TwoTo32) < 0

InUint16(n) == n \in 0 .. 65535

\* nhsva64Model after the un-premultiplication, on the non-premultiplied t
\* with extremes cMax and cMax - delta and alpha a: 65535 * delta and
\* h360 * 65535 + 180 fit 32 bits, the values v, a, s and h handed to
\* uint16(...) fit 16 bits, h at most the value of 359 degrees, and c has
\* them
NarrowsFrom(t, cMax, delta, a, c) ==
    /\ Fits32(65535, delta, 0)
    /\ InUint16(cMax) /\ c.V = cMax
    /\ InUint16(a) /\ c.A = a
    /\ cMax > 0 => (InUint16(MulDiv(65535, delta, cMax)) /\ c.S = MulDiv(65535, delta, cMax))
    /\ delta > 0 =>
           /\ DegreesOf(t) \in 0 .. 359
           /\ Fits32(DegreesOf(t), 65535, 180)
           /\ nhsva64Hue(t[1], t[2], t[3], cMax, delta) \in 0 .. Hue16(359)
           /\ c.H = nhsva64Hue(t[1], t[2], t[3], cMax, delta)

\* nhsva64Model on the premultiplied q: r * 65535, g * 65535 and b * 65535
\* fit 32 bits, and the rest as above
NoOverflow(q, c) ==
    /\ \A i \in 1 .. 3 : Fits32(q[i], 65535, 0)
    /\ NarrowsFrom(StraightOf(q), Greatest(StraightOf(q)),
                   Greatest(StraightOf(q)) - Least(StraightOf(q)), q[4], c)

\* V16 * A16 + 32768 of the grayscale path of NHSVA.RGBA and NHSVA64.RGBA
\* fits 32 bits
GrayFits(c) ==
    (c.type \in {"NHSVA", "NHSVA64"} /\ c.S = 0) =>
        Fits32(IF c.type = "NHSVA" THEN c.V + c.V * 256 ELSE c.V,
               IF c.type = "NHSVA" THEN c.A + c.A * 256 ELSE c.A, 32768)

====
